---- MODULE Spec2Model ----
(***************************************************************************)
(* A model of the CSV/XLSX to SQL Server reconciliation loader:            *)
(* the file pipeline (processFile), the load (uploadToDatabase, as written *)
(* for the folder watcher and for the upload endpoint), table resolution,  *)
(* date coercion, and the destination tables as the driver's statements    *)
(* change them.                                                            *)
(*                                                                         *)
(* JavaScript strings are sequences of one-character strings; a cell is a  *)
(* string, and undefined (an absent key) is the value Undefined.           *)
(***************************************************************************)
EXTENDS Integers, Sequences, FiniteSets, Bags, TLC

(***************************************************************************)
(* Bounds of the model.                                                    *)
(***************************************************************************)
\* the longest batch (data rows of one file)
MaxRows == 2
\* the number of files dropped, one pipeline after the other
NumFiles == 2

\* the most digits on either side of the decimal marker of a numeric text
MaxDigits == 2

(***************************************************************************)
(* Characters and strings.                                                 *)
(***************************************************************************)
Undefined == <<"undefined">>

\* null: a NULL cell, a null parameter, the null a coercion returns
Null == <<"null">>

Digits == <<"0", "1", "2", "3", "4", "5", "6", "7", "8", "9">>

UpperLetters == <<"A", "B", "C", "D", "E", "F", "G", "H", "I", "J", "K", "L", "M",
                  "N", "O", "P", "Q", "R", "S", "T", "U", "V", "W", "X", "Y", "Z">>

LowerLetters == <<"a", "b", "c", "d", "e", "f", "g", "h", "i", "j", "k", "l", "m",
                  "n", "o", "p", "q", "r", "s", "t", "u", "v", "w", "x", "y", "z">>

\* the characters of the model in the order of their UTF-16 code units
CodeOrder == <<" ", "-", ".">> \o Digits \o UpperLetters \o <<"_">> \o LowerLetters

Range(s) == {s[k] : k \in DOMAIN s}

Code(c) == CHOOSE k \in DOMAIN CodeOrder : CodeOrder[k] = c

IsDigit(c) == c \in Range(Digits)

IsLetter(c) == c \in Range(UpperLetters) \cup Range(LowerLetters)

IsSpace(c) == c = " "

DigitVal(c) == (CHOOSE k \in DOMAIN Digits : Digits[k] = c) - 1

ToLowerChar(c) ==
  IF c \in Range(UpperLetters)
  THEN LowerLetters[CHOOSE k \in DOMAIN UpperLetters : UpperLetters[k] = c]
  ELSE c

toLowerCase(s) == [k \in DOMAIN s |-> ToLowerChar(s[k])]

\* String.prototype.includes
includes(s, sub) ==
  \E k \in 0..(Len(s) - Len(sub)) : SubSeq(s, k + 1, k + Len(sub)) = sub

\* the < of two strings: by code unit, a proper prefix first
StrLess(a, b) ==
  \E k \in 1..(Len(b)) :
    /\ k <= Len(a) + 1
    /\ \A j \in 1..(k - 1) : a[j] = b[j]
    /\ \/ k = Len(a) + 1
       \/ k <= Len(a) /\ Code(a[k]) < Code(b[k])

\* String.prototype.trim (the blank is the only white space of the model)
RECURSIVE TrimLeft(_)
TrimLeft(s) == IF s # <<>> /\ IsSpace(Head(s)) THEN TrimLeft(Tail(s)) ELSE s

RECURSIVE TrimRight(_)
TrimRight(s) ==
  IF s # <<>> /\ IsSpace(s[Len(s)]) THEN TrimRight(SubSeq(s, 1, Len(s) - 1)) ELSE s

trim(s) == TrimRight(TrimLeft(s))

\* a value that an `if (v)` or `a || b` takes for true
Truthy(v) == v # Undefined /\ v # Null /\ v # <<>>

\* row[col], undefined for an absent key
Get(row, col) == IF col \in DOMAIN row THEN row[col] ELSE Undefined

(***************************************************************************)
(* Value coercion: parseDate.                                              *)
(***************************************************************************)
monthMap ==
  [m \in { <<"j","a","n">>, <<"f","e","b">>, <<"m","a","r">>, <<"a","p","r">>,
           <<"m","a","y">>, <<"m","e","i">>, <<"j","u","n">>, <<"j","u","l">>,
           <<"a","u","g">>, <<"a","g","u">>, <<"s","e","p">>, <<"o","c","t">>,
           <<"o","k","t">>, <<"n","o","v">>, <<"d","e","c">>, <<"d","e","s">> } |->
     CASE m = <<"j","a","n">> -> <<"0","1">>
       [] m = <<"f","e","b">> -> <<"0","2">>
       [] m = <<"m","a","r">> -> <<"0","3">>
       [] m = <<"a","p","r">> -> <<"0","4">>
       [] m \in {<<"m","a","y">>, <<"m","e","i">>} -> <<"0","5">>
       [] m = <<"j","u","n">> -> <<"0","6">>
       [] m = <<"j","u","l">> -> <<"0","7">>
       [] m \in {<<"a","u","g">>, <<"a","g","u">>} -> <<"0","8">>
       [] m = <<"s","e","p">> -> <<"0","9">>
       [] m \in {<<"o","c","t">>, <<"o","k","t">>} -> <<"1","0">>
       [] m = <<"n","o","v">> -> <<"1","1">>
       [] OTHER -> <<"1","2">>]

\* the length of the longest run of characters of one class that starts at s[k]
RECURSIVE RunLen(_, _, _)
RunLen(s, k, class) ==
  IF k <= Len(s) /\ ( \/ class = "digit" /\ IsDigit(s[k])
                      \/ class = "letter" /\ IsLetter(s[k])
                      \/ class = "space" /\ IsSpace(s[k]) )
  THEN 1 + RunLen(s, k + 1, class)
  ELSE 0

\* /(\d{1,2})\s*([a-z]+)\s*(\d{4})/i tried at position k. The three classes are
\* disjoint, so each greedy quantifier takes its whole run or the match fails:
\* one or two digits, blanks, letters, blanks, then at least four digits.
DateMatchAt(s, k) ==
  LET dl == RunLen(s, k, "digit")
      a  == k + dl
      b  == a + RunLen(s, a, "space")
      ll == RunLen(s, b, "letter")
      c  == b + ll
      y  == c + RunLen(s, c, "space")
  IN  IF dl \in {1, 2} /\ ll >= 1 /\ RunLen(s, y, "digit") >= 4
      THEN [ok |-> TRUE, day |-> SubSeq(s, k, a - 1),
            month |-> SubSeq(s, b, c - 1), year |-> SubSeq(s, y, y + 3)]
      ELSE [ok |-> FALSE, day |-> <<>>, month |-> <<>>, year |-> <<>>]

\* String.prototype.match without the g flag: the leftmost match. A run of three
\* or more digits still matches from its last two digits (or its last one).
DateMatch(s) ==
  LET starts == {k \in 1..Len(s) : DateMatchAt(s, k).ok}
  IN  IF starts = {}
      THEN [ok |-> FALSE, day |-> <<>>, month |-> <<>>, year |-> <<>>]
      ELSE DateMatchAt(s, CHOOSE k \in starts : \A j \in starts : k <= j)

\* the day as the pattern captured it
padStartNone(s) == s

padStart2(s) == IF Len(s) < 2 THEN <<"0">> \o s ELSE s

parseDate(value) ==
  IF value = Null \/ value = Undefined \/ value = <<>>
  THEN Null
  ELSE LET \* the trimmed text and its match, each computed once
           named(strValue, match) ==
             LET lower == toLowerCase(match.month)
                 key   == SubSeq(lower, 1, IF Len(lower) < 3 THEN Len(lower) ELSE 3)
             IN  IF match.ok /\ key \in DOMAIN monthMap
                 THEN match.year \o <<"-">> \o monthMap[key] \o <<"-">>
                      \o padStart2(match.day)
                 ELSE strValue
       IN  CHOOSE out \in {named(strValue, match) :
                             strValue \in {trim(value)},
                             match \in {DateMatch(trim(value))}} : TRUE

(***************************************************************************)
(* Value coercion: parseNumeric.                                           *)
(***************************************************************************)
\* String.prototype.lastIndexOf for one character, 0-based, -1 when absent
lastIndexOf(s, c) ==
  LET at == {k \in DOMAIN s : s[k] = c}
  IN  IF at = {} THEN 0 - 1 ELSE (CHOOSE k \in at : \A j \in at : j <= k) - 1

\* replace(/c/g, '') for each character c of chars
RECURSIVE removeAll(_, _)
removeAll(s, chars) ==
  IF s = <<>> THEN <<>>
  ELSE IF Head(s) \in chars THEN removeAll(Tail(s), chars)
  ELSE <<Head(s)>> \o removeAll(Tail(s), chars)

\* replace(c, d) with a string pattern: the first occurrence only
replaceFirst(s, c, d) ==
  LET at == {k \in DOMAIN s : s[k] = c}
  IN  IF at = {} THEN s
      ELSE [k \in DOMAIN s |-> IF k = (CHOOSE j \in at : \A i \in at : j <= i)
                               THEN d ELSE s[k]]

\* the number a run of decimal digits writes
RECURSIVE DigitsToNat(_)
DigitsToNat(ds) ==
  IF ds = <<>> THEN 0
  ELSE DigitsToNat(SubSeq(ds, 1, Len(ds) - 1)) * 10 + DigitVal(ds[Len(ds)])

\* A number is [m, e], the value m / 10^e, with no trailing zero counted in e.
RECURSIVE Norm(_)
Norm(n) == IF n.e > 0 /\ n.m % 10 = 0 THEN Norm([m |-> n.m \div 10, e |-> n.e - 1]) ELSE n

\* parseFloat on the characters of the model (blank, sign, digits, point): the
\* longest numeric prefix, NaN (here Null) when it has no digit
parseFloat(s) ==
  LET t     == TrimLeft(s)
      neg   == t # <<>> /\ t[1] = "-"
      k     == IF t # <<>> /\ t[1] \in {"-", "+"} THEN 2 ELSE 1
      il    == RunLen(t, k, "digit")
      point == k + il <= Len(t) /\ t[k + il] = "."
      fl    == IF point THEN RunLen(t, k + il + 1, "digit") ELSE 0
      ds    == SubSeq(t, k, k + il - 1) \o SubSeq(t, k + il + 1, k + il + fl)
  IN  IF il = 0 /\ fl = 0 THEN Null
      ELSE Norm([m |-> IF neg THEN 0 - DigitsToNat(ds) ELSE DigitsToNat(ds), e |-> fl])

\* every comma a thousands separator, as the comment above the function has it
parseNumericCommaThousands(value) ==
  IF value = Undefined \/ value = <<>> THEN Null
  ELSE parseFloat(removeAll(trim(value), {","}))

parseNumeric(value) ==
  IF value = Undefined \/ value = <<>> THEN Null
  ELSE LET strValue  == trim(value)
           lastDot   == lastIndexOf(strValue, ".")
           lastComma == lastIndexOf(strValue, ",")
       IN  IF lastDot > lastComma
           THEN parseFloat(removeAll(strValue, {","}))
           ELSE IF lastComma > lastDot
           THEN parseFloat(replaceFirst(removeAll(strValue, {"."}), ",", "."))
           ELSE parseFloat(removeAll(strValue, {",", "."}))

(***************************************************************************)
(* Tables, connections and the schema registry.                            *)
(***************************************************************************)
SNJ == "SNJ_SRP_DETAIL"

ACC == "SALES_INVOICE_ACCURATE_ONLINE"

Tables == {SNJ, ACC}

DB1 == "Database 1"

DB2 == "Database 2"

Conns == {DB1, DB2}

\* tableSchemas.json as loadSchemas reads it: the columns each table is created
\* with, its date and numeric columns, its columnMapping (none declared) and
\* the columns it is indexed on
schemas ==
  [t \in Tables |->
     IF t = SNJ
     THEN [columns |-> {"BILL_NO", "SALES_DATE", "ORG_CODE_NAME", "QTY"},
           dateColumns |-> {"SALES_DATE"}, numericColumns |-> {"QTY"},
           hasMapping |-> FALSE, columnMapping |-> <<>>,
           indexes |-> << <<"S","A","L","E","S","_","D","A","T","E">>,
                          <<"O","R","G","_","C","O","D","E","_","N","A","M","E">> >>]
     ELSE [columns |-> {"No. Faktur", "Tanggal", "Gudang"},
           dateColumns |-> {"Tanggal"}, numericColumns |-> {},
           hasMapping |-> FALSE, columnMapping |-> <<>>,
           indexes |-> << <<"T","a","n","g","g","a","l">> >>]]

\* the record keeps its column names whatever the mapping
mapColumnsKeepingNames(registry, csvRow, tableName) == csvRow

\* mapColumns, registry being what loadSchemas returned: the row itself when
\* the table has no schema or no columnMapping; else a new row with, for each
\* entry <<csvCol, sqlCol>> of the mapping in its order whose csvCol the row
\* has, the value under sqlCol (a later entry for the same sqlCol overwrites)
mapColumns(registry, csvRow, tableName) ==
  IF tableName \notin DOMAIN registry \/ ~registry[tableName].hasMapping
  THEN csvRow
  ELSE LET m   == registry[tableName].columnMapping
           has == {k \in DOMAIN m : m[k][1] \in DOMAIN csvRow}
           last(sqlCol) ==
             CHOOSE k \in has : /\ m[k][2] = sqlCol
                                /\ \A j \in has : m[j][2] = sqlCol => j <= k
       IN  [sqlCol \in {m[k][2] : k \in has} |-> csvRow[m[last(sqlCol)][1]]]

getColumnType(tableName, columnName) ==
  IF tableName \notin DOMAIN schemas THEN "string"
  ELSE IF columnName \in schemas[tableName].numericColumns THEN "numeric"
  ELSE IF columnName \in schemas[tableName].dateColumns THEN "date"
  ELSE "string"

\* the column a DELETE filters on, per table
dateColumn(tableName) == IF tableName = ACC THEN "Tanggal" ELSE "SALES_DATE"

\* every table's stores are read from the detail table's column
storeColumnOfDetail(tableName) == "ORG_CODE_NAME"

\* the column of the stores, per table
storeColumn(tableName) == IF tableName = ACC THEN "Gudang" ELSE "ORG_CODE_NAME"

(***************************************************************************)
(* Destination resolution.                                                 *)
(***************************************************************************)
\* the same function in fileWatcher.js and in server.js; headers before names
\* is the order a resolver by content would use
detectTableNameHeadersFirst(fileName, data) ==
  LET lowerFileName == toLowerCase(fileName)
      columns == IF Len(data) > 0 THEN DOMAIN data[1] ELSE {}
  IN  IF "No. Faktur" \in columns \/ "Tanggal" \in columns THEN ACC
      ELSE IF "BILL_NO" \in columns \/ "SALES_DATE" \in columns THEN SNJ
      ELSE IF \/ includes(lowerFileName, <<"a","c","c","u","r","a","t","e">>)
              \/ includes(lowerFileName, <<"i","n","v","o","i","c","e">>)
      THEN ACC
      ELSE SNJ

detectTableName(fileName, data) ==
  LET lowerFileName == toLowerCase(fileName)
      columns == IF Len(data) > 0 THEN DOMAIN data[1] ELSE {}
  IN  IF \/ includes(lowerFileName, <<"a","c","c","u","r","a","t","e">>)
         \/ includes(lowerFileName, <<"i","n","v","o","i","c","e">>)
      THEN ACC
      ELSE IF \/ includes(lowerFileName, <<"s","n","j">>)
              \/ includes(lowerFileName, <<"s","r","p">>)
      THEN SNJ
      ELSE IF "No. Faktur" \in columns \/ "Tanggal" \in columns THEN ACC
      ELSE IF "BILL_NO" \in columns \/ "SALES_DATE" \in columns THEN SNJ
      ELSE SNJ

\* the connection a table is routed to
routeOf(tableName) == IF tableName = ACC THEN DB2 ELSE DB1

(***************************************************************************)
(* The load window.                                                        *)
(***************************************************************************)
\* row.SALES_DATE || row.Tanggal
dateValueOf(row) ==
  IF Truthy(Get(row, "SALES_DATE")) THEN Get(row, "SALES_DATE") ELSE Get(row, "Tanggal")

\* /^\d{2}-\d{2}-\d{4}$/
IsDMY(s) ==
  /\ Len(s) = 10
  /\ \A k \in {1, 2, 4, 5, 7, 8, 9, 10} : IsDigit(s[k])
  /\ s[3] = "-" /\ s[6] = "-"

\* the upload endpoint's date text: DD-MM-YYYY is turned round, all else is kept
serverDateStr(dateStr) ==
  IF IsDMY(dateStr)
  THEN SubSeq(dateStr, 7, 10) \o <<"-">> \o SubSeq(dateStr, 4, 5) \o <<"-">> \o SubSeq(dateStr, 1, 2)
  ELSE dateStr

\* the date text a row contributes to the window, Undefined when it gives none
\* (the earlier watcher reads row.SALES_DATE alone)
windowDate(via, row) ==
  LET dateValue == IF via = "legacy" THEN Get(row, "SALES_DATE") ELSE dateValueOf(row)
  IN  IF ~Truthy(dateValue) THEN Undefined
      ELSE IF via # "watcher" THEN serverDateStr(dateValue)
      ELSE LET parsedDate == parseDate(dateValue)
           IN  IF Truthy(parsedDate) THEN parsedDate ELSE Undefined

\* if (!minDate || dateStr < minDate) minDate = dateStr, for a row that gives a date
earlierOf(prev, d) ==
  IF d = Undefined THEN prev
  ELSE IF prev = Undefined \/ StrLess(d, prev) THEN d ELSE prev

\* if (!maxDate || dateStr > maxDate) maxDate = dateStr
laterOf(prev, d) ==
  IF d = Undefined THEN prev
  ELSE IF prev = Undefined \/ StrLess(prev, d) THEN d ELSE prev

\* the running minimum after the first k rows (null is Undefined)
RECURSIVE minDateOf(_, _, _)
minDateOf(via, rows, k) ==
  IF k = 0 THEN Undefined
  ELSE earlierOf(minDateOf(via, rows, k - 1), windowDate(via, rows[k]))

RECURSIVE maxDateOf(_, _, _)
maxDateOf(via, rows, k) ==
  IF k = 0 THEN Undefined
  ELSE laterOf(maxDateOf(via, rows, k - 1), windowDate(via, rows[k]))

\* the Set of stores: the truthy values of the table's store column
storesOf(tableName, rows) ==
  {Get(rows[k], storeColumn(tableName)) : k \in DOMAIN rows} \ {Undefined, <<>>}

\* if (minDate && maxDate)
hasWindowOfTwoDays(minDate, maxDate) ==
  Truthy(minDate) /\ Truthy(maxDate) /\ minDate # maxDate

hasWindow(minDate, maxDate) == Truthy(minDate) /\ Truthy(maxDate)

(***************************************************************************)
(* The destination store: what the driver's statements do.                 *)
(***************************************************************************)
\* a date the store could not read
Invalid == 0 - 1

\* a NULL date cell (days are numbers, so this is one too)
NoDate == 0 - 2

IsIso(s) ==
  /\ Len(s) = 10
  /\ \A k \in {1, 2, 3, 4, 6, 7, 9, 10} : IsDigit(s[k])
  /\ s[5] = "-" /\ s[8] = "-"

\* YYYY-MM-DD as the number YYYYMMDD, which orders as the calendar does
IsoOrd(s) ==
  DigitVal(s[1]) * 10000000 + DigitVal(s[2]) * 1000000 + DigitVal(s[3]) * 100000
  + DigitVal(s[4]) * 10000 + DigitVal(s[6]) * 1000 + DigitVal(s[7]) * 100
  + DigitVal(s[9]) * 10 + DigitVal(s[10])

\* the days of the files of the model
Days == {20251125, 20251201}

\* What a date text bound to a date parameter or column becomes. An ISO text is
\* its day. Any other text is left to the driver's and the store's own date
\* parsers, which are not part of the source: any day, or a refusal.
SqlDate(text) == IF IsIso(text) THEN {IsoOrd(text)} ELSE Days \cup {Invalid}

\* A table is a bag of rows [date, store]: SQL keeps equal rows apart.
\* The rows a DELETE ... WHERE date BETWEEN lo AND hi [AND store IN (stores)]
\* removes, each with all its copies.
deleteScopeDateOnly(rows, lo, hi, stores) ==
  LET hit == {r \in DOMAIN rows : r.date # NoDate /\ lo <= r.date /\ r.date <= hi}
  IN  [r \in hit |-> rows[r]]

deleteScope(rows, lo, hi, stores) ==
  LET hit == {r \in DOMAIN rows : /\ r.date # NoDate /\ lo <= r.date /\ r.date <= hi
                                  /\ (stores # {} => r.store \in stores)}
  IN  [r \in hit |-> rows[r]]

(***************************************************************************)
(* The files of the model.                                                 *)
(***************************************************************************)
D1 == <<"2","0","2","5","-","1","1","-","2","5">>

D2 == <<"2","0","2","5","-","1","2","-","0","1">>

DN == <<"2","5"," ","N","o","v"," ","2","0","2","5">>

S1 == <<"S","1">>

S2 == <<"S","2">>

\* the rows a file may hold: a detail row of store S1, one of S2 on the same day,
\* one with no date, one with no store on a later day, one whose only column no
\* table has, and an invoice row with a named month
Records ==
  { [SALES_DATE |-> D1, ORG_CODE_NAME |-> S1],
    [SALES_DATE |-> D1, ORG_CODE_NAME |-> S2],
    [SALES_DATE |-> <<>>, ORG_CODE_NAME |-> S1],
    [SALES_DATE |-> D2, ORG_CODE_NAME |-> <<>>],
    [X |-> <<"1">>],
    [Tanggal |-> DN, Gudang |-> S1] }

Batches == UNION {[1..n -> Records] : n \in 0..MaxRows}

FileNames ==
  { <<"I","n","v","o","i","c","e",".","c","s","v">>,
    <<"s","n","j",".","c","s","v">>,
    <<"d","a","t","a",".","c","s","v">> }

\* files of the watched folder that are not for the watcher
OtherNames ==
  { <<".","s","n","j",".","c","s","v">>,
    <<"n","o","t","e","s",".","t","x","t">> }

Files == 1..NumFiles

\* config.autoUpload.maxRetries
maxRetries == 2

\* the attempts the upload endpoint asks connectWithRetry for
serverRetries == 3

retriesOf(via) == IF via = "server" THEN serverRetries ELSE maxRetries

(***************************************************************************)
(* State.                                                                  *)
(***************************************************************************)
VARIABLES
  p,        \* p[f]: the pipeline of file f, its locals and its position
  db,       \* db[c][t]: the committed rows of table t on connection c
  created,  \* the <<connection, table>> pairs whose table exists
  enabled,  \* the connections config.json enables
  call      \* the call of a function taken on its own: its arguments and result

vars == <<p, db, created, enabled, call>>

\* no function is being called on its own
NoCall == [fn |-> "none"]

EmptyDb == [c \in Conns |-> [t \in Tables |-> EmptyBag]]

\* the statements a load sends once connected, each counted as it is sent
Ops == {"exists", "create", "metadata", "begin", "commit"}

\* a pipeline that has not started; the fields from deletes on are history
\* kept for the properties: statements sent, waits between connection
\* attempts, INSERTs sent per record and the column list of each, connections
\* the file was sent to
Fresh ==
  [pc |-> "idle", via |-> "watcher", fileName |-> <<>>, content |-> <<>>,
   loc |-> "none", data |-> <<>>, rows |-> <<>>, tableName |-> SNJ, conn |-> DB1,
   attempt |-> 0, pool |-> "none", closes |-> 0, columnTypes |-> {},
   minDate |-> Undefined, maxDate |-> Undefined, stores |-> {},
   txn |-> "none", txDel |-> EmptyBag, txIns |-> EmptyBag, i |-> 0,
   successCount |-> 0, errorCount |-> 0, errors |-> <<>>,
   result |-> "none", deletes |-> 0, rollbacks |-> 0, before |-> EmptyDb,
   failedAt |-> "none", isRepeat |-> FALSE, prevCount |-> 0,
   delays |-> 0, ran |-> [op \in Ops |-> 0], rowRuns |-> [k \in 1..MaxRows |-> 0],
   sentColumns |-> [k \in 1..MaxRows |-> {}], wasCreated |-> FALSE,
   routedTable |-> <<>>,
   todo |-> <<>>, tried |-> {}, waited |-> 0, gate |-> "none", outcome |-> [hasErrors |-> FALSE, errors |-> <<>>]]

\* a pipeline that ended before the one now running began: its locals are gone
Gone == [Fresh EXCEPT !.pc = "gone"]

Ended == {"done", "escaped", "gone"}

Init ==
  /\ db = EmptyDb
  /\ created = {}
  /\ enabled \in {Conns, {DB1}}
  /\ p = [f \in Files |-> Fresh]
  /\ call = NoCall

Upd(f, r) == p' = [p EXCEPT ![f] = r]

\* where an exception of the pipeline is caught: processFile's catch moves the
\* file to the failed folder, the endpoint's catch answers the request
catchPcIntoProcessed(via) == IF via = "server" THEN "respond" ELSE "moveProcessed"

catchPc(via) == IF via = "server" THEN "respond" ELSE "moveFailed"

\* the pipeline of f with one more statement op counted as sent
Sent(f, op) == [p[f] EXCEPT !.ran[op] = @ + 1]

\* an exception thrown in uploadToDatabase's outer try while the pool is open:
\* the finally block runs first
ThrowInLoad(f, op, at) ==
  Upd(f, [Sent(f, op) EXCEPT !.result = "threw", !.failedAt = at, !.pc = "close"])

\* path.extname(name).toLowerCase(): from the last dot on, empty when there is
\* none or the name begins with its only dot
extname(fileName) ==
  LET dot == lastIndexOf(fileName, ".")
  IN  IF dot <= 0 THEN <<>> ELSE toLowerCase(SubSeq(fileName, dot + 1, Len(fileName)))

\* chokidar's ignored: /(^|[\/\\])\../, on the path of a file below the watched
\* folder: a dot at the start or after a separator, with a character after it
ignored(filePath) ==
  \E k \in 1..(Len(filePath) - 1) :
    /\ filePath[k] = "."
    /\ k = 1 \/ filePath[k - 1] \in {"/", "\\"}

\* the add handler goes by the extension alone
startsPipelineForDotfiles(filePath) ==
  extname(filePath) \in { <<".","c","s","v">>, <<".","x","l","s","x">> }

\* whether the watcher starts processFile for a file of the watched folder:
\* chokidar emits add for it (also for one there at startup) unless it is
\* ignored, and the handler goes on for .csv and .xlsx
startsPipeline(filePath) ==
  /\ ~ignored(filePath)
  /\ extname(filePath) \in { <<".","c","s","v">>, <<".","x","l","s","x">> }

(***************************************************************************)
(* The pipeline of one file.                                               *)
(***************************************************************************)
\* The watcher's add event calls processFile, or a request reaches the upload
\* endpoint. Files come one after the other here.
Detect(f) ==
  /\ p[f].pc = "idle"
  /\ \A g \in Files : g < f => p[g].pc \in Ended
  /\ \E via \in {"watcher", "server"}, name \in FileNames \cup OtherNames,
        content \in Batches :
       /\ IF via = "watcher" THEN startsPipeline(name) ELSE name \in FileNames
       /\ LET prev == p[f - 1]
              repeat == /\ f > 1
                        /\ prev.result = "returned"
                        /\ prev.via = via /\ prev.fileName = name /\ prev.content = content
                        /\ prev.before[prev.conn][prev.tableName] = EmptyBag
          IN  p' = [g \in Files |->
                      IF g = f
                      THEN [Fresh EXCEPT !.pc = IF via = "watcher" THEN "wait" ELSE "parse",
                                         !.via = via, !.fileName = name,
                                         !.content = content, !.loc = "watch",
                                         !.isRepeat = repeat,
                                         !.prevCount =
                                            IF repeat
                                            THEN BagCardinality(db[prev.conn][prev.tableName])
                                            ELSE 0]
                      ELSE IF g < f THEN Gone ELSE p[g]]
  /\ UNCHANGED <<db, created, enabled, call>>

\* waitForFile's maxWaitMs
maxWaitMs == 10000

\* the wait after a probe that found the file locked
probeIntervalMs == 500

\* parseFile's first step in the watcher, one pass of waitForFile's loop: the
\* file is opened r+ (isFileLocked); opened, the wait is over and gate is
\* "passed"; locked, the probe is repeated after the interval while the time
\* waited (a local of waitForFile, gone when it returns) is below maxWaitMs;
\* after that waitForFile throws, out of parseFile into processFile's catch
WaitForFile(f) ==
  /\ p[f].pc = "wait"
  /\ IF p[f].waited >= maxWaitMs
     THEN Upd(f, [p[f] EXCEPT !.gate = "timedOut", !.failedAt = "parse",
                              !.pc = catchPc(p[f].via)])
     ELSE \E locked \in BOOLEAN :
            IF locked THEN Upd(f, [p[f] EXCEPT !.waited = @ + probeIntervalMs])
            ELSE Upd(f, [p[f] EXCEPT !.waited = 0, !.gate = "passed", !.pc = "parse"])
  /\ UNCHANGED <<db, created, enabled, call>>

\* parseFile after the wait: the type detection or the parser may throw, and a
\* file with no data row is refused
ParseFile(f) ==
  /\ p[f].pc = "parse"
  /\ \E ok \in BOOLEAN :
       IF ok /\ Len(p[f].content) > 0
       THEN Upd(f, [p[f] EXCEPT !.data = p[f].content, !.pc = "resolve"])
       ELSE Upd(f, [p[f] EXCEPT !.failedAt = "parse", !.pc = catchPc(p[f].via)])
  /\ UNCHANGED <<db, created, enabled, call>>

\* detectTableName and the routing of the table to its connection
Resolve(f) ==
  /\ p[f].pc = "resolve"
  /\ LET tableName == detectTableName(p[f].fileName, p[f].data)
         conn      == routeOf(tableName)
     IN  IF enabled = {} \/ conn \notin enabled
         THEN Upd(f, [p[f] EXCEPT !.tableName = tableName, !.routedTable = tableName,
                                  !.failedAt = "route",
                                  !.before = db, !.pc = catchPc(p[f].via)])
         ELSE Upd(f, [p[f] EXCEPT !.tableName = tableName, !.routedTable = tableName,
                                  !.conn = conn,
                                  !.tried = {conn},
                                  !.attempt = 1, !.before = db, !.pc = "connect"])
  /\ UNCHANGED <<db, created, enabled, call>>

\* the table resolved from the headers alone
tableNameOfLoadByHeaders(fileName, data) == detectTableName(<<>>, data)

\* uploadToDatabase resolves the table again, from the file name and the batch
\* processFile passed to it
tableNameOfLoad(fileName, data) == detectTableName(fileName, data)

\* connectWithRetry: one attempt of the loop
Connect(f) ==
  /\ p[f].pc = "connect"
  /\ IF p[f].attempt > retriesOf(p[f].via)
     THEN \* the loop is over with nothing returned: the first pool.request() throws
          Upd(f, [p[f] EXCEPT !.result = "threw", !.failedAt = "connect",
                              !.pc = catchPc(p[f].via)])
     ELSE \E ok \in BOOLEAN :
            IF ok
            THEN Upd(f, [p[f] EXCEPT !.pool = "open",
                                     !.tableName =
                                        IF p[f].via = "watcher"
                                        THEN tableNameOfLoad(p[f].fileName, p[f].data)
                                        ELSE @,
                                     !.pc = IF p[f].via # "watcher" THEN "schemaQuery"
                                            ELSE "tableExists"])
            ELSE IF p[f].attempt = retriesOf(p[f].via)
            THEN Upd(f, [p[f] EXCEPT !.result = "threw", !.failedAt = "connect",
                                     !.pc = catchPc(p[f].via)])
            ELSE \* the wait of retryDelayMs, then the next attempt
                 Upd(f, [p[f] EXCEPT !.attempt = @ + 1, !.delays = @ + 1])
  /\ UNCHANGED <<db, created, enabled, call>>

\* the table is looked for on every connection
tableExistsOnAnyConnection(tables, conn, tableName) ==
  \E c \in Conns : <<c, tableName>> \in tables

\* tableExists: the table is in INFORMATION_SCHEMA.TABLES of the connection,
\* tables being the <<connection, table>> pairs of the tables there
tableExists(tables, conn, tableName) == <<conn, tableName>> \in tables

\* a CREATE INDEX that failed ends createTable
afterIndexErrorThrow == "throw"

\* createTable's catch around each CREATE INDEX: log a warning and go on
afterIndexError == "next"

\* the name of the index on a column
indexName(indexCol) == <<"i","d","x","_">> \o toLowerCase(indexCol)

\* ensureTable as one call with the tables there before it: what it returns,
\* the statements sent (sent), the indexes asked for (tried) and made
\* (indexed), and the tables there after it. okQuery and okCreate say whether
\* the existence query and CREATE TABLE succeed, bad the index columns whose
\* CREATE INDEX fails.
ensureTable(tables, conn, tableName, okQuery, okCreate, bad) ==
  LET idx  == IF tableName \in DOMAIN schemas THEN schemas[tableName].indexes ELSE <<>>
      stop == {k \in DOMAIN idx : idx[k] \in bad /\ afterIndexError # "next"}
      last == IF stop = {} THEN Len(idx) ELSE CHOOSE k \in stop : \A j \in stop : k <= j
      none == [out |-> "throw", sent |-> <<>>, tried |-> <<>>, indexed |-> {},
               created |-> tables]
  IN  IF tableName \notin DOMAIN schemas THEN none
      ELSE IF ~okQuery THEN [none EXCEPT !.sent = <<"exists">>]
      ELSE IF tableExists(tables, conn, tableName)
      THEN [none EXCEPT !.out = "false", !.sent = <<"exists">>]
      ELSE IF ~okCreate THEN [none EXCEPT !.sent = <<"exists", "create">>]
      ELSE [out     |-> IF stop = {} THEN "true" ELSE "throw",
            sent    |-> <<"exists", "create">>,
            tried   |-> [k \in 1..last |-> indexName(idx[k])],
            indexed |-> {indexName(idx[k]) : k \in {j \in 1..last : idx[j] \notin bad}},
            created |-> tables \cup {<<conn, tableName>>}]

\* ensureTable: the existence query
TableExists(f) ==
  /\ p[f].pc = "tableExists"
  /\ \E ok \in BOOLEAN :
       IF ~ok THEN ThrowInLoad(f, "exists", "provision")
       ELSE Upd(f, [Sent(f, "exists") EXCEPT
                      !.pc = IF tableExists(created, p[f].conn, p[f].tableName)
                             THEN "schemaQuery" ELSE "createTable"])
  /\ UNCHANGED <<db, created, enabled, call>>

\* ensureTable: CREATE TABLE for an absent table, then one CREATE INDEX per
\* index column, whose failures (bad) are logged and change nothing here
CreateTable(f) ==
  /\ p[f].pc = "createTable"
  /\ \E ok \in BOOLEAN, bad \in SUBSET Range(schemas[p[f].tableName].indexes) :
       IF ok /\ <<p[f].conn, p[f].tableName>> \notin created
       THEN /\ created' = created \cup {<<p[f].conn, p[f].tableName>>}
            /\ Upd(f, [Sent(f, "create") EXCEPT !.wasCreated = TRUE,
                                             !.pc = "schemaQuery"])
       ELSE \* the statement failed, or the table is there by now
            /\ ThrowInLoad(f, "create", IF ok THEN "alreadyExists" ELSE "provision")
            /\ UNCHANGED created
  /\ UNCHANGED <<db, enabled, call>>

\* the column metadata query, then (with no await in between) the column
\* mapping and the window
SchemaQuery(f) ==
  /\ p[f].pc = "schemaQuery"
  /\ \E ok \in BOOLEAN :
       IF ~ok THEN ThrowInLoad(f, "metadata", "metadata")
       ELSE LET t    == p[f].tableName
                rows == IF p[f].via # "watcher" THEN p[f].data
                        ELSE [k \in DOMAIN p[f].data |-> mapColumns(schemas, p[f].data[k], t)]
            IN  Upd(f, [Sent(f, "metadata") EXCEPT
                          !.columnTypes = IF <<p[f].conn, t>> \in created
                                          THEN schemas[t].columns ELSE {},
                          !.rows = rows,
                          !.minDate = minDateOf(p[f].via, rows, Len(rows)),
                          !.maxDate = maxDateOf(p[f].via, rows, Len(rows)),
                          !.stores = storesOf(t, rows),
                          !.pc = "begin"])
  /\ UNCHANGED <<db, created, enabled, call>>

\* transaction.begin(), outside the inner try: a failure is not rolled back
Begin(f) ==
  /\ p[f].pc = "begin"
  /\ \E ok \in BOOLEAN :
       IF ~ok THEN ThrowInLoad(f, "begin", "begin")
       ELSE Upd(f, [Sent(f, "begin") EXCEPT !.txn = "active", !.i = 1,
                                !.pc = IF hasWindow(p[f].minDate, p[f].maxDate)
                                       THEN "delete" ELSE "insert"])
  /\ UNCHANGED <<db, created, enabled, call>>

\* the rows of the target table as the open transaction of f sees them
TxView(f) == (db[p[f].conn][p[f].tableName] (-) p[f].txDel) (+) p[f].txIns

\* where control goes when the DELETE or the commit throws: the inner catch,
\* which rolls back and throws again
afterTxErrorSwallowed == "commit"

afterTxError == "rollback"

\* the delete phase: one DELETE statement, bounded by the window
Delete(f) ==
  /\ p[f].pc = "delete"
  /\ \E ok \in BOOLEAN, lo \in SqlDate(p[f].minDate), hi \in SqlDate(p[f].maxDate) :
       IF /\ ok /\ lo # Invalid /\ hi # Invalid
          /\ <<p[f].conn, p[f].tableName>> \in created
       THEN Upd(f, [p[f] EXCEPT
                      !.deletes = @ + 1,
                      !.txDel = deleteScope(db[p[f].conn][p[f].tableName],
                                            lo, hi, p[f].stores),
                      !.pc = "insert"])
       ELSE Upd(f, [p[f] EXCEPT !.deletes = @ + 1, !.failedAt = "delete",
                                !.pc = IF afterTxError = "rollback" THEN "rollback"
                                       ELSE "insert"])
  /\ UNCHANGED <<db, created, enabled, call>>

\* the columns of a row that go into its INSERT: all of them for the watcher,
\* those the column metadata knows for the upload endpoint
insertColumns(via, row, columnTypes) ==
  IF via # "watcher" THEN DOMAIN row \cap columnTypes ELSE DOMAIN row

\* the text bound for the table's date column, Null for a null parameter
boundDate(via, tableName, row, cols) ==
  LET col   == dateColumn(tableName)
      value == Get(row, col)
  IN  IF col \notin cols \/ value = Undefined \/ value = <<>> THEN Null
      ELSE IF via = "watcher" /\ getColumnType(tableName, col) = "date"
      THEN parseDate(value)
      ELSE value

boundStore(tableName, row, cols) ==
  LET col   == storeColumn(tableName)
      value == Get(row, col)
  IN  IF col \notin cols \/ value = Undefined \/ value = <<>> THEN Null ELSE value

\* whether the type name the column metadata gives is a number's
isNumericSqlType(sqlType) ==
  /\ sqlType # Undefined
  /\ \/ includes(sqlType, <<"i","n","t">>)
     \/ includes(sqlType, <<"n","u","m","e","r","i","c">>)
     \/ includes(sqlType, <<"d","e","c","i","m","a","l">>)
     \/ includes(sqlType, <<"f","l","o","a","t">>)

\* the type of the column metadata is looked at before the schema
bindingOfLiveTypeFirst(tableName, col, value, sqlType) ==
  IF value = Null \/ value = Undefined \/ value = <<>>
  THEN [type |-> "NVarChar", by |-> "null"]
  ELSE IF isNumericSqlType(sqlType) THEN [type |-> "Numeric", by |-> "parseNumeric"]
  ELSE IF getColumnType(tableName, col) = "numeric"
  THEN [type |-> "Numeric", by |-> "parseNumeric"]
  ELSE IF getColumnType(tableName, col) = "date"
  THEN [type |-> "Date", by |-> "parseDate"]
  ELSE [type |-> "NVarChar", by |-> "toString"]

\* how the watcher binds a column's value to its INSERT parameter: the driver
\* type and the coercion the value goes through (sqlType is columnTypes[col],
\* Undefined for a column the metadata does not have)
bindingOf(tableName, col, value, sqlType) ==
  IF value = Null \/ value = Undefined \/ value = <<>>
  THEN [type |-> "NVarChar", by |-> "null"]
  ELSE IF getColumnType(tableName, col) = "numeric"
  THEN [type |-> "Numeric", by |-> "parseNumeric"]
  ELSE IF getColumnType(tableName, col) = "date"
  THEN [type |-> "Date", by |-> "parseDate"]
  ELSE IF isNumericSqlType(sqlType) THEN [type |-> "Numeric", by |-> "parseNumeric"]
  ELSE [type |-> "NVarChar", by |-> "toString"]

\* the row whose INSERT threw is sent again
afterRowErrorSendAgain == "again"

\* what the loop does after a row whose INSERT threw: count it and go on
afterRowError == "next"

\* whether the upload endpoint's loop passes over a row with no known column
\* without counting it (`continue`)
skipsRow(via, cols) == via # "watcher" /\ cols = {}

\* the insert phase: one pass of the loop
Insert(f) ==
  /\ p[f].pc = "insert"
  /\ LET row  == p[f].rows[p[f].i]
         t    == p[f].tableName
         cols == insertColumns(p[f].via, row, p[f].columnTypes)
         next == IF p[f].i = Len(p[f].rows) THEN "commit" ELSE "insert"
         text == boundDate(p[f].via, t, row, cols)
     IN  IF skipsRow(p[f].via, cols)
         THEN Upd(f, [p[f] EXCEPT !.i = @ + 1, !.pc = next])
         ELSE \E ok \in BOOLEAN, d \in IF text = Null THEN {NoDate} ELSE SqlDate(text) :
                IF /\ ok /\ d # Invalid
                   /\ <<p[f].conn, t>> \in created
                   /\ cols # {} /\ cols \subseteq schemas[t].columns
                THEN Upd(f, [p[f] EXCEPT
                               !.rowRuns[p[f].i] = @ + 1,
                               !.sentColumns[p[f].i] = cols,
                               !.txIns = @ (+) SetToBag({[date |-> d,
                                                  store |-> boundStore(t, row, cols)]}),
                               !.successCount = @ + 1,
                               !.i = @ + 1, !.pc = next])
                ELSE Upd(f, [p[f] EXCEPT
                               !.rowRuns[p[f].i] = @ + 1,
                               !.sentColumns[p[f].i] = cols,
                               !.errorCount = @ + 1,
                               !.errors = Append(@, p[f].i),
                               !.i = IF afterRowError = "next" THEN @ + 1 ELSE @,
                               !.pc = IF afterRowError = "next" THEN next
                                      ELSE "insert"])
  /\ UNCHANGED <<db, created, enabled, call>>

\* the entries the upload endpoint's outcome keeps of its errors
errorsLimit == 10

\* the errors of the object a load returns: the upload endpoint returns the
\* first entries of the list it collected, the watchers' objects have no such
\* property (hasErrors is FALSE)
returnedErrors(via, errors) ==
  IF via = "server"
  THEN [hasErrors |-> TRUE,
        errors |-> SubSeq(errors, 1, IF Len(errors) < errorsLimit THEN Len(errors)
                                     ELSE errorsLimit)]
  ELSE [hasErrors |-> FALSE, errors |-> <<>>]

\* transaction.commit(), then the outcome is returned
Commit(f) ==
  /\ p[f].pc = "commit"
  /\ \E ok \in BOOLEAN :
       IF ok
       THEN /\ db' = [db EXCEPT ![p[f].conn][p[f].tableName] = TxView(f)]
            /\ Upd(f, [Sent(f, "commit") EXCEPT
                           !.txn = "committed", !.result = "returned",
                           !.outcome = returnedErrors(p[f].via, p[f].errors),
                           !.pc = "close"])
       ELSE /\ Upd(f, [Sent(f, "commit") EXCEPT !.failedAt = "commit",
                                   !.pc = IF afterTxError = "rollback" THEN "rollback"
                                          ELSE "close"])
            /\ UNCHANGED db
  /\ UNCHANGED <<created, enabled, call>>

\* the rollback takes the tables the load created with it
afterRollbackUndoingCreate(tables, provisioned) == tables \ provisioned

\* the tables there after transaction.rollback(), provisioned being those the
\* load created: ensureTable ran on the pool before the transaction was made,
\* so the rollback has nothing of it to undo
afterRollback(tables, provisioned) == tables

\* the inner catch: transaction.rollback(), then the error is thrown again.
\* A rollback that throws leaves the transaction to die with the connection.
Rollback(f) ==
  /\ p[f].pc = "rollback"
  /\ \E ok \in BOOLEAN :
       Upd(f, [p[f] EXCEPT !.rollbacks = @ + 1,
                           !.txn = IF ok THEN "rolledBack" ELSE "rollbackFailed",
                           !.result = "threw", !.pc = "close"])
  /\ created' = afterRollback(created, IF p[f].wasCreated
                                        THEN {<<p[f].conn, p[f].tableName>>} ELSE {})
  /\ UNCHANGED <<db, enabled, call>>

\* whether the finally block closes the pool
closesPoolOnlyOnSuccess(pool, result) == pool = "open" /\ result = "returned"

closesPool(pool, result) == pool = "open"

\* the finally block of uploadToDatabase, then the caller's next step
Close(f) ==
  /\ p[f].pc = "close"
  /\ Upd(f, [p[f] EXCEPT
               !.pool = IF closesPool(p[f].pool, p[f].result) THEN "closed" ELSE @,
               !.closes = IF closesPool(p[f].pool, p[f].result) THEN @ + 1 ELSE @,
               !.txn = IF @ = "active" THEN "abandoned" ELSE @,
               !.pc = IF p[f].result = "returned"
                      THEN CASE p[f].via = "server" -> "respond"
                             [] p[f].via = "legacy" -> "forEach"
                             [] OTHER -> "moveProcessed"
                      ELSE catchPc(p[f].via)])
  /\ UNCHANGED <<db, created, enabled, call>>

\* processFile: the rename into the processed folder, inside the try
MoveProcessed(f) ==
  /\ p[f].pc = "moveProcessed"
  /\ \E ok \in BOOLEAN :
       IF ok THEN Upd(f, [p[f] EXCEPT !.loc = "processed", !.pc = "done"])
       ELSE Upd(f, [p[f] EXCEPT !.failedAt = "move", !.pc = "moveFailed"])
  /\ UNCHANGED <<db, created, enabled, call>>

\* processFile's catch: the rename into the failed folder, which nothing guards
MoveFailed(f) ==
  /\ p[f].pc = "moveFailed"
  /\ \E ok \in BOOLEAN :
       IF ok THEN Upd(f, [p[f] EXCEPT !.loc = "failed", !.pc = "done"])
       ELSE Upd(f, [p[f] EXCEPT !.pc = "escaped"])
  /\ UNCHANGED <<db, created, enabled, call>>

\* the upload endpoint: the uploaded file is unlinked and the request answered
Respond(f) ==
  /\ p[f].pc = "respond"
  /\ Upd(f, [p[f] EXCEPT !.loc = "deleted", !.pc = "done"])
  /\ UNCHANGED <<db, created, enabled, call>>

Next ==
  \E f \in Files :
    \/ Detect(f)
    \/ WaitForFile(f)
    \/ ParseFile(f)
    \/ Resolve(f)
    \/ Connect(f)
    \/ TableExists(f)
    \/ CreateTable(f)
    \/ SchemaQuery(f)
    \/ Begin(f)
    \/ Delete(f)
    \/ Insert(f)
    \/ Commit(f)
    \/ Rollback(f)
    \/ Close(f)
    \/ MoveProcessed(f)
    \/ MoveFailed(f)
    \/ Respond(f)

Spec == Init /\ [][Next]_vars

(***************************************************************************)
(* The earlier watcher: no table is resolved, the file is loaded into the  *)
(* detail table of every enabled connection, one connection after another; *)
(* each load is the one of the upload endpoint.                            *)
(***************************************************************************)
\* the connections of config.json, in the order of the file
ConnOrder == <<DB1, DB2>>

\* config.connections.filter(conn => conn.enabled)
RECURSIVE enabledConnections(_)
enabledConnections(conns) ==
  IF conns = <<>> THEN <<>>
  ELSE IF Head(conns) \in enabled
  THEN <<Head(conns)>> \o enabledConnections(Tail(conns))
  ELSE enabledConnections(Tail(conns))

\* the files the earlier watcher is given: no row or one
LegacyBatches == {b \in Batches : Len(b) <= 1}

\* the add event of the earlier watcher
LegacyDetect(f) ==
  /\ p[f].pc = "idle"
  /\ \A g \in Files : g < f => p[g].pc \in Ended
  /\ \E name \in FileNames, content \in LegacyBatches :
       p' = [g \in Files |->
               IF g = f
               THEN [Fresh EXCEPT !.pc = "parse", !.via = "legacy", !.fileName = name,
                                  !.content = content, !.loc = "watch"]
               ELSE IF g < f THEN Gone ELSE p[g]]
  /\ UNCHANGED <<db, created, enabled, call>>

\* processFile of the earlier watcher, after the parse: the enabled connections
LegacyResolve(f) ==
  /\ p[f].pc = "resolve"
  /\ IF enabledConnections(ConnOrder) = <<>>
     THEN Upd(f, [p[f] EXCEPT !.failedAt = "route", !.before = db, !.pc = "moveFailed"])
     ELSE Upd(f, [p[f] EXCEPT !.tableName = SNJ, !.before = db,
                              !.todo = enabledConnections(ConnOrder), !.pc = "forEach"])
  /\ UNCHANGED <<db, created, enabled, call>>

\* the loop over the enabled connections: the load into the next one, or the
\* move of the file when none is left
LegacyForEach(f) ==
  /\ p[f].pc = "forEach"
  /\ IF p[f].todo = <<>>
     THEN Upd(f, [p[f] EXCEPT !.pc = "moveProcessed"])
     ELSE Upd(f, [Fresh EXCEPT
                    !.via = "legacy", !.fileName = p[f].fileName,
                    !.content = p[f].content, !.loc = p[f].loc, !.data = p[f].data,
                    !.tableName = SNJ, !.before = p[f].before,
                    !.conn = Head(p[f].todo), !.todo = Tail(p[f].todo),
                    !.tried = p[f].tried \cup {Head(p[f].todo)},
                    !.attempt = 1, !.pc = "connect"])
  /\ UNCHANGED <<db, created, enabled, call>>

LegacyInit ==
  /\ db = EmptyDb
  /\ created \in {{<<c, SNJ>> : c \in Conns}, {<<DB1, SNJ>>}}
  /\ enabled \in {Conns, {DB2}, {}}
  /\ p = [f \in Files |-> Fresh]
  /\ call = NoCall

LegacyNext ==
  \E f \in Files :
    \/ LegacyDetect(f)
    \/ ParseFile(f)
    \/ LegacyResolve(f)
    \/ LegacyForEach(f)
    \/ Connect(f)
    \/ SchemaQuery(f)
    \/ Begin(f)
    \/ Delete(f)
    \/ Insert(f)
    \/ Commit(f)
    \/ Rollback(f)
    \/ Close(f)
    \/ MoveProcessed(f)
    \/ MoveFailed(f)

LegacySpec == LegacyInit /\ [][LegacyNext]_vars

(***************************************************************************)
(* Files detected together: the add handler does not await processFile, so *)
(* the pipelines of two files take their steps in any order.               *)
(***************************************************************************)
\* what the files dropped together hold: one detail row, or nothing
ConcBatches == { <<>>, <<[SALES_DATE |-> D1, ORG_CODE_NAME |-> S1]>> }

ConcDetect(f) ==
  /\ p[f].pc = "idle"
  /\ \E name \in FileNames \cup OtherNames, content \in ConcBatches :
       /\ startsPipeline(name)
       /\ Upd(f, [Fresh EXCEPT !.pc = "wait", !.fileName = name,
                               !.content = content, !.loc = "watch"])
  /\ UNCHANGED <<db, created, enabled, call>>

ConcNext ==
  \E f \in Files :
    \/ ConcDetect(f)
    \/ WaitForFile(f)
    \/ ParseFile(f)
    \/ Resolve(f)
    \/ Connect(f)
    \/ TableExists(f)
    \/ CreateTable(f)
    \/ SchemaQuery(f)
    \/ Begin(f)
    \/ Delete(f)
    \/ Insert(f)
    \/ Commit(f)
    \/ Rollback(f)
    \/ Close(f)
    \/ MoveProcessed(f)
    \/ MoveFailed(f)

ConcSpec == Init /\ [][ConcNext]_vars

(***************************************************************************)
(* Format detection: which parser a file is given to.                      *)
(***************************************************************************)
\* detectFileType, from the bytes the file begins with: the four-byte buffer is
\* zero-filled, and the text test needs one printable first character
detectFileType(bytes) ==
  LET buffer == [k \in 1..4 |-> IF k <= Len(bytes) THEN bytes[k] ELSE 0]
  IN  IF buffer = <<80, 75, 3, 4>> THEN "xlsx"
      ELSE IF Len(bytes) > 0 /\ (bytes[1] \in 32..126 \/ bytes[1] \in {9, 10, 13})
      THEN "csv"
      ELSE "unknown"

\* parseFile of the watcher: the parser goes by the detected type
parseFileDispatch(bytes) ==
  CASE detectFileType(bytes) = "xlsx" -> "xlsx"
    [] detectFileType(bytes) = "csv" -> "csv"
    [] OTHER -> "throw"

\* the upload endpoint: the parser goes by the extension of the original name
uploadParser(fileName) ==
  IF extname(fileName) = <<".", "x", "l", "s", "x">> THEN "xlsx" ELSE "csv"

\* parseFile of the earlier watcher: by the extension too, any other refused
legacyParseFile(fileName) ==
  IF extname(fileName) = <<".", "x", "l", "s", "x">> THEN "xlsx"
  ELSE IF extname(fileName) = <<".", "c", "s", "v">> THEN "csv"
  ELSE "throw"

\* the parser a file is given to, by the variant that takes it in
parserOf(via, fileName, bytes) ==
  CASE via = "watcher" -> parseFileDispatch(bytes)
    [] via = "server" -> uploadParser(fileName)
    [] via = "legacy" -> legacyParseFile(fileName)

(***************************************************************************)
(* The functions taken on their own: one call at a time, on inputs drawn   *)
(* from the sets below.                                                    *)
(***************************************************************************)
\* file names, each with the hints a reader finds in it
NameCases ==
  { [name |-> <<"I","n","v","o","i","c","e","_","O","c","t",".","x","l","s","x">>,
     invoicing |-> TRUE, detail |-> FALSE],
    [name |-> <<"A","C","C","U","R","A","T","E",".","c","s","v">>,
     invoicing |-> TRUE, detail |-> FALSE],
    [name |-> <<"s","n","j","_","i","n","v","o","i","c","e",".","c","s","v">>,
     invoicing |-> TRUE, detail |-> TRUE],
    [name |-> <<"S","R","P",".","C","S","V">>,
     invoicing |-> FALSE, detail |-> TRUE],
    [name |-> <<"s","n","j",".","c","s","v">>,
     invoicing |-> FALSE, detail |-> TRUE],
    [name |-> <<"d","a","t","a",".","c","s","v">>,
     invoicing |-> FALSE, detail |-> FALSE],
    [name |-> <<"i","n","_","v","o","i","c","e",".","x","l","s","x">>,
     invoicing |-> FALSE, detail |-> FALSE] }

\* the headers a first record may have
HeaderSets == SUBSET {"No. Faktur", "Tanggal", "BILL_NO", "SALES_DATE", "X"}

\* numeric texts with the value each writes
DigitStrings == UNION {[1..n -> {"0", "5"}] : n \in 0..MaxDigits}

NumericCases ==
  { [value |-> <<"5","5",",","0","0","0",".","5","0">>, want |-> [m |-> 550005, e |-> 1]],
    [value |-> <<"5","5",".","0","0","0",",","5","0">>, want |-> [m |-> 550005, e |-> 1]],
    [value |-> <<" ","-","7",",","2","5"," ">>, want |-> [m |-> 0 - 725, e |-> 2]],
    [value |-> <<" ","-","7",".","2","5"," ">>, want |-> [m |-> 0 - 725, e |-> 2]] }
  \cup
  { [value |-> i \o <<sep>> \o fr,
     want  |-> IF i \o fr = <<>> THEN Null
               ELSE Norm([m |-> DigitsToNat(i \o fr), e |-> Len(fr)])] :
      i \in DigitStrings, fr \in DigitStrings, sep \in {".", ","} }

\* date texts: day-month-year in digits, ISO, a named month
DateTexts ==
  { <<"2","5","-","1","1","-","2","0","2","5">>,
    <<"0","1","-","0","2","-","2","0","2","4">>,
    <<"2","0","2","5","-","1","1","-","2","5">>,
    <<"2","5"," ","N","o","v"," ","2","0","2","5">>,
    <<"5"," ","m","e","i"," ","2","0","2","4">>,
    <<"2","5","-","N","o","v","-","2","0","2","5">> }

\* month texts with the month number each names, none for a text that names no
\* month
MonthTexts ==
  { [text |-> <<"N","o","v">>, mm |-> <<"1","1">>],
    [text |-> <<"M","E","I">>, mm |-> <<"0","5">>],
    [text |-> <<"m","a","y">>, mm |-> <<"0","5">>],
    [text |-> <<"A","g","u","s","t","u","s">>, mm |-> <<"0","8">>],
    [text |-> <<"o","k","t">>, mm |-> <<"1","0">>],
    [text |-> <<"D","e","s","e","m","b","e","r">>, mm |-> <<"1","2">>],
    [text |-> <<"J","a","n","u","a","r","y">>, mm |-> <<"0","1">>],
    [text |-> <<"F","o","o">>, mm |-> <<>>],
    [text |-> <<"n","o">>, mm |-> <<>>] }

\* values given to parseDate with what each is to give: day, blanks, month
\* text, blanks, year, with blanks around; and texts of no such form
DateCases ==
  { [value |-> lead \o day \o gap \o m.text \o gap \o <<"2","0","2","5">> \o lead,
     want  |-> IF m.mm = <<>>
               THEN day \o gap \o m.text \o gap \o <<"2","0","2","5">>
               ELSE <<"2","0","2","5","-">> \o m.mm \o <<"-">>
                    \o (IF Len(day) = 1 THEN <<"0">> \o day ELSE day)] :
      lead \in {<<>>, <<" ">>}, day \in {<<"5">>, <<"2","5">>},
      gap \in {<<>>, <<" ">>}, m \in MonthTexts }
  \cup
  { [value |-> <<>>, want |-> Null],
    [value |-> Null, want |-> Null],
    [value |-> Undefined, want |-> Null],
    [value |-> <<"2","5","-","N","o","v","-","2","0","2","5">>,
     want  |-> <<"2","5","-","N","o","v","-","2","0","2","5">>],
    [value |-> <<" ","2","0","2","5","-","1","1","-","2","5"," ">>,
     want  |-> <<"2","0","2","5","-","1","1","-","2","5">>],
    [value |-> <<"2","5","-","1","1","-","2","0","2","5">>,
     want  |-> <<"2","5","-","1","1","-","2","0","2","5">>],
    [value |-> <<"N","o","v"," ","2","5"," ","2","0","2","5">>,
     want  |-> <<"N","o","v"," ","2","5"," ","2","0","2","5">>],
    [value |-> <<" ","x"," ">>, want |-> <<"x">>] }

\* the bytes a file may hold: the ZIP signature, a near miss, text, zeros,
\* nothing, a letter before binary bytes, a zero before text, text with line ends
Heads ==
  { <<80, 75, 3, 4>>, <<80, 75, 3, 5>>, <<66, 73, 76, 76>>, <<0, 0, 0, 0>>, <<>>,
    <<66, 0, 200, 76>>, <<0, 73, 76, 76>>, <<66, 13, 10, 9>> }

CallDetectTableName ==
  /\ call = NoCall
  /\ \E c \in NameCases, h \in HeaderSets, n \in 0..1 :
       LET data == [k \in 1..n |-> [col \in h |-> <<"1">>]]
       IN  call' = [fn |-> "detectTableName", case |-> c, data |-> data,
                    out |-> detectTableName(c.name, data)]
  /\ UNCHANGED <<p, db, created, enabled>>

CallParseNumeric ==
  /\ call = NoCall
  /\ \E c \in NumericCases :
       call' = [fn |-> "parseNumeric", case |-> c, out |-> parseNumeric(c.value)]
  /\ UNCHANGED <<p, db, created, enabled>>

\* the date text of a record as the window reads it and as its INSERT binds it
CallCoerceDate ==
  /\ call = NoCall
  /\ \E via \in {"watcher", "server"}, use \in {"window", "bind"}, value \in DateTexts :
       LET row == [SALES_DATE |-> value]
       IN  call' = [fn |-> "coerceDate", via |-> via, use |-> use, value |-> value,
                    out |-> IF use = "window" THEN windowDate(via, row)
                            ELSE boundDate(via, SNJ, row, DOMAIN row)]
  /\ UNCHANGED <<p, db, created, enabled>>

CallParseDate ==
  /\ call = NoCall
  /\ \E c \in DateCases :
       call' = [fn |-> "parseDate", case |-> c, out |-> parseDate(c.value)]
  /\ UNCHANGED <<p, db, created, enabled>>

\* the records the window is computed from on its own: ISO days, the same days
\* as DD-MM-YYYY and with a named month, records with both date columns, with
\* both store columns, with an empty date or store, and one with neither
WindowRecords ==
  { [SALES_DATE |-> D1, ORG_CODE_NAME |-> S1],
    [SALES_DATE |-> D2, ORG_CODE_NAME |-> S1, Gudang |-> S2],
    [SALES_DATE |-> D1, Tanggal |-> D2, ORG_CODE_NAME |-> S2],
    [SALES_DATE |-> <<>>, Tanggal |-> D2, ORG_CODE_NAME |-> <<>>, Gudang |-> S2],
    [SALES_DATE |-> <<"2","5","-","1","1","-","2","0","2","5">>, ORG_CODE_NAME |-> S1],
    [SALES_DATE |-> <<"0","1","-","1","2","-","2","0","2","5">>, ORG_CODE_NAME |-> S2],
    [Tanggal |-> DN, Gudang |-> S1],
    [Tanggal |-> <<"1"," ","D","e","s"," ","2","0","2","5">>, Gudang |-> S1],
    [X |-> <<"1">>] }

\* the scan of the (mapped) records for the window and the stores, in the
\* watcher or in the upload endpoint; picked is each record's date value
CallWindow ==
  /\ call = NoCall
  /\ \E via \in {"watcher", "server"}, t \in Tables,
        rows \in UNION {[1..n -> WindowRecords] : n \in 1..MaxRows} :
       call' = [fn |-> "window", via |-> via, table |-> t, rows |-> rows,
                picked |-> [k \in DOMAIN rows |-> dateValueOf(rows[k])],
                minDate |-> minDateOf(via, rows, Len(rows)),
                maxDate |-> maxDateOf(via, rows, Len(rows)),
                stores |-> storesOf(t, rows)]
  /\ UNCHANGED <<p, db, created, enabled>>

\* the type names the column metadata may give a column, Undefined for none
SqlTypes ==
  { Undefined, <<"i","n","t">>, <<"b","i","g","i","n","t">>,
    <<"n","u","m","e","r","i","c">>, <<"d","e","c","i","m","a","l">>,
    <<"f","l","o","a","t">>, <<"n","v","a","r","c","h","a","r">>,
    <<"d","a","t","e">>, <<"d","a","t","e","t","i","m","e">> }

\* the binding of one column of one record, for every column, value and type
CallBind ==
  /\ call = NoCall
  /\ \E t \in Tables, sqlType \in SqlTypes,
        col \in {"QTY", "SALES_DATE", "Tanggal", "BILL_NO", "Gudang"},
        value \in {Null, Undefined, <<>>, <<"5">>, D1, DN} :
       call' = [fn |-> "bind", table |-> t, col |-> col, value |-> value,
                sqlType |-> sqlType, out |-> bindingOf(t, col, value, sqlType)]
  /\ UNCHANGED <<p, db, created, enabled>>

\* registries for the renaming: none for the table, a schema with no
\* columnMapping, one with an empty mapping, one that renames two columns and
\* keeps a third under its name
MappingRegistries ==
  { [t \in {} |-> [hasMapping |-> FALSE, columnMapping |-> <<>>]],
    [t \in {SNJ} |-> [hasMapping |-> FALSE, columnMapping |-> <<>>]],
    [t \in {SNJ} |-> [hasMapping |-> TRUE, columnMapping |-> <<>>]],
    [t \in {SNJ} |-> [hasMapping |-> TRUE,
                      columnMapping |-> << <<"Sales Date", "SALES_DATE">>,
                                           <<"Store", "ORG_CODE_NAME">>,
                                           <<"BILL_NO", "BILL_NO">> >>]] }

\* records for the renaming: every choice of the columns below, each with a
\* value of its own
MappingRows ==
  { [c \in cols |-> CASE c = "Sales Date" -> D1 [] c = "Store" -> S1
                      [] c = "BILL_NO" -> <<"7">> [] OTHER -> <<"x">>] :
      cols \in SUBSET {"Sales Date", "Store", "BILL_NO", "Other"} }

\* mapColumns on a record, for a registry
\* the retry bounds connectWithRetry is called with
RetryBounds == {0 - 1, 0, 1, 2, 3}

\* what sql.connect answers at the first, second and third attempt
ConnectAnswers == [1..3 -> BOOLEAN]

\* connectWithRetry from one attempt of its loop on: a pool at the first
\* attempt that succeeds, a throw when attempt `retries` fails, and, when the
\* loop condition fails, the end of the function body with no return statement
RECURSIVE connectFrom(_, _, _)
connectFrom(retries, answers, attempt) ==
  IF attempt > retries
  THEN [out |-> "undefined", attempts |-> attempt - 1, delays |-> attempt - 1]
  ELSE IF answers[attempt]
  THEN [out |-> "pool", attempts |-> attempt, delays |-> attempt - 1]
  ELSE IF attempt = retries
  THEN [out |-> "throw", attempts |-> attempt, delays |-> attempt - 1]
  ELSE connectFrom(retries, answers, attempt + 1)

connectWithRetry(retries, answers) == connectFrom(retries, answers, 1)

\* uploadToDatabase after `pool = await connectWithRetry(...)`: a throw leaves
\* through the finally block, any value returned goes on to ensureTable
CallConnectWithRetry ==
  /\ call = NoCall
  /\ \E retries \in RetryBounds, answers \in ConnectAnswers :
       LET r == connectWithRetry(retries, answers)
       IN  call' = [fn |-> "connectWithRetry", retries |-> retries,
                    answers |-> answers, out |-> r.out, attempts |-> r.attempts,
                    delays |-> r.delays,
                    next |-> IF r.out = "throw" THEN "finally" ELSE "ensureTable"]
  /\ UNCHANGED <<p, db, created, enabled>>

\* files that appear in the watched folder, each with what a reader sees in its
\* name: a leading dot, an extension of .csv or .xlsx in any case
WatchedFiles ==
  { [name |-> <<"d","a","t","a",".","c","s","v">>, dot |-> FALSE, sheet |-> TRUE],
    [name |-> <<"S","R","P",".","C","S","V">>, dot |-> FALSE, sheet |-> TRUE],
    [name |-> <<"I","n","v",".","x","l","s","x">>, dot |-> FALSE, sheet |-> TRUE],
    [name |-> <<"a",".","X","l","S","x">>, dot |-> FALSE, sheet |-> TRUE],
    [name |-> <<"d","a","t","a",".",".","c","s","v">>, dot |-> FALSE, sheet |-> TRUE],
    [name |-> <<".","s","n","j",".","c","s","v">>, dot |-> TRUE, sheet |-> TRUE],
    [name |-> <<".","S","R","P",".","X","L","S","X">>, dot |-> TRUE, sheet |-> TRUE],
    [name |-> <<".","c","s","v">>, dot |-> TRUE, sheet |-> FALSE],
    [name |-> <<"n","o","t","e","s",".","t","x","t">>, dot |-> FALSE, sheet |-> FALSE],
    [name |-> <<"d","a","t","a",".","c","s","v",".","b","a","k">>,
     dot |-> FALSE, sheet |-> FALSE],
    [name |-> <<"d","a","t","a",".","x","l","s">>, dot |-> FALSE, sheet |-> FALSE],
    [name |-> <<"d","a","t","a",".","c","s","v","x">>, dot |-> FALSE, sheet |-> FALSE],
    [name |-> <<"c","s","v">>, dot |-> FALSE, sheet |-> FALSE],
    [name |-> <<"d","a","t","a",".","c","s","v",".">>, dot |-> FALSE, sheet |-> FALSE] }

\* chokidar's add event for a file of the watched folder
CallAdd ==
  /\ call = NoCall
  /\ \E c \in WatchedFiles :
       call' = [fn |-> "add", case |-> c, out |-> startsPipeline(c.name)]
  /\ UNCHANGED <<p, db, created, enabled>>

CallMapColumns ==
  /\ call = NoCall
  /\ \E registry \in MappingRegistries, csvRow \in MappingRows :
       call' = [fn |-> "mapColumns", registry |-> registry, csvRow |-> csvRow,
                out |-> mapColumns(registry, csvRow, SNJ)]
  /\ UNCHANGED <<p, db, created, enabled>>

\* ensureTable on a connection, for a table of the registry or another, with
\* any of the tables there before it
CallEnsureTable ==
  /\ call = NoCall
  /\ \E tables \in SUBSET (Conns \X Tables),
        conn \in Conns, t \in Tables \cup {"NO_SUCH_TABLE"},
        okQuery \in BOOLEAN, okCreate \in BOOLEAN,
        bad \in SUBSET UNION {Range(schemas[u].indexes) : u \in Tables} :
       LET r == ensureTable(tables, conn, t, okQuery, okCreate, bad)
       IN  call' = [fn |-> "ensureTable", conn |-> conn, table |-> t,
                    okQuery |-> okQuery, okCreate |-> okCreate, bad |-> bad,
                    before |-> tables, after |-> r.created, out |-> r.out,
                    sent |-> r.sent, tried |-> r.tried, indexed |-> r.indexed]
  /\ UNCHANGED <<p, db, created, enabled>>

CallParser ==
  /\ call = NoCall
  /\ \E via \in {"watcher", "server", "legacy"}, c \in NameCases, bytes \in Heads :
       call' = [fn |-> "parser", via |-> via, name |-> c.name, bytes |-> bytes,
                out |-> parserOf(via, c.name, bytes)]
  /\ UNCHANGED <<p, db, created, enabled>>

Return ==
  /\ call # NoCall
  /\ call' = NoCall
  /\ UNCHANGED <<p, db, created, enabled>>

FnInit ==
  /\ db = EmptyDb
  /\ created = {}
  /\ enabled = Conns
  /\ p = [f \in Files |-> Fresh]
  /\ call = NoCall

FnNext ==
  \/ CallDetectTableName
  \/ CallParseNumeric
  \/ CallCoerceDate
  \/ CallParseDate
  \/ CallEnsureTable
  \/ CallWindow
  \/ CallBind
  \/ CallMapColumns
  \/ CallAdd
  \/ CallConnectWithRetry
  \/ CallParser
  \/ Return

FnSpec == FnInit /\ [][FnNext]_vars

(***************************************************************************)
(* What the claims read.                                                   *)
(***************************************************************************)
\* the rows of the table a load writes, as they were when the load began and
\* as they are now
TargetBefore(f) == p[f].before[p[f].conn][p[f].tableName]

TargetNow(f) == db[p[f].conn][p[f].tableName]

\* the positions of a pipeline whose uploadToDatabase is over
AfterLoad == {"moveProcessed", "moveFailed", "respond", "done", "escaped"}

\* the positions from the delete phase on
FromDelete == {"delete", "insert", "commit", "rollback", "close"} \cup AfterLoad

(***************************************************************************)
(* C1: a load whose DELETE fails after the transaction has begun goes to   *)
(* the rollback and nowhere else; the target table holds the rows it held  *)
(* before the load, no row of the batch is inserted, and the load throws   *)
(* to its caller.                                                          *)
(***************************************************************************)
DeleteFailureRollsBack ==
  \A f \in Files :
    p[f].failedAt = "delete" =>
      /\ TargetNow(f) = TargetBefore(f)
      /\ p[f].txIns = EmptyBag
      /\ p[f].pc \in {"rollback", "close", "moveFailed", "respond", "done", "escaped"}
      /\ p[f].pc # "rollback" => p[f].rollbacks = 1 /\ p[f].result = "threw"

\* a finished load whose DELETE failed on a table that held rows
DeleteFailedOnFilledTable ==
  \E f \in Files :
    /\ p[f].failedAt = "delete" /\ p[f].pc = "done"
    /\ p[f].rollbacks = 1
    /\ TargetBefore(f) # EmptyBag

(***************************************************************************)
(* C2, as amended: when a batch is loaded twice in succession into a table *)
(* that was empty, every record being inserted both times, and every       *)
(* record has a value in the table's date column (the value the window is  *)
(* read from, a YYYY-MM-DD text once coerced) and a value in the table's   *)
(* store column, the table has as many rows after the second load as after *)
(* the first.                                                              *)
(***************************************************************************)
\* both loads of a repeated batch committed and inserted every record
BothLoadsInsertedAll(f) ==
  /\ p[f].isRepeat
  /\ p[f].txn = "committed"
  /\ p[f].prevCount = Len(p[f].content)
  /\ p[f].successCount = Len(p[f].content)

\* every record carries the table's date and store, and its date is the one
\* the window is read from
EveryRecordDatedAndStored(f) ==
  \A k \in DOMAIN p[f].rows :
    LET row == p[f].rows[k]
        t   == p[f].tableName
    IN  /\ Truthy(Get(row, dateColumn(t)))
        /\ Truthy(Get(row, storeColumn(t)))
        /\ dateValueOf(row) = Get(row, dateColumn(t))
        /\ IsIso(boundDate(p[f].via, t, row, DOMAIN row))

OneRowFailureIsIsolated ==
  \A f \in Files :
    p[f].txn = "committed" /\ Len(p[f].errors) = 1 =>
      /\ p[f].successCount = Len(p[f].rows) - 1
      /\ p[f].errorCount = 1
      /\ p[f].errors[1] \in 1..Len(p[f].rows)

(***************************************************************************)
(* C4: a load that returns an outcome has counted every record of its      *)
(* batch: successCount + errorCount = N.                                   *)
(***************************************************************************)
EveryRowIsCounted ==
  \A f \in Files :
    p[f].result = "returned" => p[f].successCount + p[f].errorCount = Len(p[f].rows)

(***************************************************************************)
(* C5: once the DELETE or the commit has thrown, the rollback has been     *)
(* called by the time the connection is closed, the target table holds the *)
(* rows it held before the load whatever the rows counted as successes,    *)
(* and the load throws: its file is never moved to the processed folder.   *)
(***************************************************************************)
ExceptionBeforeCommitRollsBack ==
  \A f \in Files :
    p[f].failedAt \in {"delete", "commit"} =>
      /\ TargetNow(f) = TargetBefore(f)
      /\ p[f].pc \in {"rollback", "close", "moveFailed", "respond", "done", "escaped"}
      /\ p[f].loc # "processed"
      /\ p[f].pc # "rollback" => p[f].rollbacks = 1 /\ p[f].result = "threw"

\* a file in the failed folder whose commit threw after rows had been counted
CommitFailedAfterSuccesses ==
  \E f \in Files :
    /\ p[f].failedAt = "commit" /\ p[f].pc = "done" /\ p[f].loc = "failed"
    /\ p[f].successCount > 0
    /\ p[f].rollbacks = 1

(***************************************************************************)
(* C6: a load closes the connection it acquired exactly once before it     *)
(* returns or throws, and closes nothing when it acquired none: no         *)
(* finished load holds an open connection.                                 *)
(***************************************************************************)
ConnectionClosedOnce ==
  \A f \in Files :
    /\ p[f].closes <= 1
    /\ p[f].pc \in AfterLoad =>
         /\ p[f].pool # "open"
         /\ p[f].pool = "closed" <=> p[f].closes = 1

\* a load whose rollback itself threw, with its connection closed once
ClosedAfterFailedRollback ==
  \E f \in Files :
    /\ p[f].txn = "rollbackFailed" /\ p[f].pc \in AfterLoad
    /\ p[f].pool = "closed" /\ p[f].closes = 1

(***************************************************************************)
(* C7: when processFile has returned, the file is in the processed or the  *)
(* failed folder, and in the processed folder exactly when the load        *)
(* committed.                                                              *)
(***************************************************************************)
RelocationMatchesOutcome ==
  \A f \in Files :
    p[f].via = "watcher" /\ p[f].pc = "done" =>
      /\ p[f].loc \in {"processed", "failed"}
      /\ p[f].loc = "processed" <=> p[f].txn = "committed"

(***************************************************************************)
(* C8, its safety part: no exception leaves processFile, and a pipeline    *)
(* that is over has moved its file out of the watched folder.              *)
(***************************************************************************)
NoExceptionEscapes ==
  \A f \in Files :
    /\ p[f].pc # "escaped"
    /\ p[f].pc = "done" => p[f].loc # "watch"

(***************************************************************************)
(* C9: a load whose batch has no record with a value in the date column of *)
(* its table issues no DELETE, and when it commits every row the table     *)
(* held before is still there.                                             *)
(***************************************************************************)
NoDateValueMeansNoDelete ==
  \A f \in Files :
    ( /\ p[f].pc \in FromDelete
      /\ p[f].rows # <<>>
      /\ \A k \in DOMAIN p[f].rows :
           ~Truthy(Get(p[f].rows[k], dateColumn(p[f].tableName))) ) =>
      /\ p[f].pc # "delete"
      /\ p[f].deletes = 0
      /\ p[f].txn = "committed" => TargetBefore(f) \sqsubseteq TargetNow(f)

(***************************************************************************)
(* C10: a DELETE that ran under a window of YYYY-MM-DD dates removed every *)
(* copy of each row whose date lies in [min, max] and, when the store set  *)
(* is not empty, whose store is in the set, and no other row; at commit    *)
(* the table is what it was, less those rows, plus the inserted rows; and  *)
(* no other table changes.                                                 *)
(***************************************************************************)
InWindow(f, r) ==
  /\ r.date # NoDate
  /\ IsoOrd(p[f].minDate) <= r.date /\ r.date <= IsoOrd(p[f].maxDate)
  /\ p[f].stores # {} => r.store \in p[f].stores

DeleteScopeIsWindowAndStores ==
  \A f \in Files :
    /\ p[f].attempt >= 1 =>
         \A c \in Conns, t \in Tables :
           <<c, t>> # <<p[f].conn, p[f].tableName>> => db[c][t] = p[f].before[c][t]
    /\ ( /\ p[f].deletes = 1 /\ p[f].failedAt # "delete"
         /\ IsIso(p[f].minDate) /\ IsIso(p[f].maxDate) ) =>
         /\ BagToSet(p[f].txDel) \subseteq BagToSet(TargetBefore(f))
         /\ \A r \in BagToSet(TargetBefore(f)) :
              CopiesIn(r, p[f].txDel) =
                IF InWindow(f, r) THEN CopiesIn(r, TargetBefore(f)) ELSE 0
         /\ p[f].txn = "committed" =>
              TargetNow(f) = (TargetBefore(f) (-) p[f].txDel) (+) p[f].txIns

\* a committed load that deleted the rows of its store and spared a row of
\* another store on the same day
DeleteSparedOtherStore ==
  \E f \in Files :
    /\ p[f].deletes = 1 /\ p[f].txn = "committed" /\ p[f].pc = "done"
    /\ p[f].stores # {} /\ p[f].txDel # EmptyBag
    /\ IsIso(p[f].minDate) /\ IsIso(p[f].maxDate)
    /\ \E r \in BagToSet(TargetBefore(f)) :
         /\ r \notin BagToSet(p[f].txDel)
         /\ IsoOrd(p[f].minDate) <= r.date /\ r.date <= IsoOrd(p[f].maxDate)

(***************************************************************************)
(* C11: detectTableName decides in a fixed order, the first match winning: *)
(* an invoicing hint in the file name, then a detail hint in the file      *)
(* name, then an invoicing header of the first record, then the detail     *)
(* table (with or without a detail header).                                *)
(***************************************************************************)
ResolutionFollowsDecisionOrder ==
  call.fn = "detectTableName" =>
    LET headers == IF Len(call.data) > 0 THEN DOMAIN call.data[1] ELSE {}
    IN  call.out = IF call.case.invoicing THEN ACC
                   ELSE IF call.case.detail THEN SNJ
                   ELSE IF headers \cap {"No. Faktur", "Tanggal"} # {} THEN ACC
                   ELSE SNJ

\* a name with both hints over a record with a detail header: the invoicing
\* hint wins
InvoicingHintOverridesAll ==
  /\ call.fn = "detectTableName"
  /\ call.case.invoicing /\ call.case.detail
  /\ Len(call.data) > 0 /\ "BILL_NO" \in DOMAIN call.data[1]
  /\ call.out = ACC

EnsureTableCreatesIffAbsent ==
  call.fn = "ensureTable" =>
    LET pair    == <<call.conn, call.table>>
        existed == pair \in call.before
    IN  IF call.table \notin Tables
        THEN call.out = "throw" /\ call.sent = <<>> /\ call.after = call.before
        ELSE /\ ("create" \in Range(call.sent)) <=> (call.okQuery /\ ~existed)
             /\ call.out = "true" <=> (call.okQuery /\ ~existed /\ call.okCreate)
             /\ call.out = "true" => call.after = call.before \cup {pair}
             /\ call.out = "false" <=> (call.okQuery /\ existed)
             /\ call.out # "true" =>
                  call.after = call.before /\ call.tried = <<>> /\ call.indexed = {}

\* a call for a table that is there on this connection and on no other
ExistingTableLeftAlone ==
  /\ call.fn = "ensureTable" /\ call.out = "false"
  /\ call.before = {<<call.conn, call.table>>}

(***************************************************************************)
(* C30: when ensureTable has created a table it asks for one index per     *)
(* index column of the schema, in order, named idx_ and the column in      *)
(* lower case; the indexes that fail are passed over, the others are made, *)
(* and ensureTable returns true.                                           *)
(***************************************************************************)
IndexFailuresAreIsolated ==
  ( /\ call.fn = "ensureTable" /\ call.table \in Tables
    /\ call.okQuery /\ call.okCreate
    /\ <<call.conn, call.table>> \notin call.before ) =>
      LET sd == <<"i","d","x","_","s","a","l","e","s","_","d","a","t","e">>
          oc == <<"i","d","x","_","o","r","g","_","c","o","d","e","_","n","a","m","e">>
          tg == <<"i","d","x","_","t","a","n","g","g","a","l">>
          failed == {indexName(c) : c \in call.bad}
      IN  /\ call.tried = IF call.table = SNJ THEN <<sd, oc>> ELSE <<tg>>
          /\ call.indexed = Range(call.tried) \ failed
          /\ call.out = "true"

\* the detail table created with its first index refused and its second made
SecondIndexMadeAfterFirstFailed ==
  /\ call.fn = "ensureTable" /\ call.table = SNJ /\ call.out = "true"
  /\ call.bad = {<<"S","A","L","E","S","_","D","A","T","E">>}
  /\ call.indexed = {<<"i","d","x","_","o","r","g","_","c","o","d","e","_","n","a","m","e">>}

(***************************************************************************)
(* C23: the outcome a load returns has an errors list, with one entry per  *)
(* failed row in row order up to ten entries, so as long as the smaller of *)
(* errorCount and ten, each entry with the 1-based index of its row.       *)
(***************************************************************************)
OutcomeCarriesErrorList ==
  \A f \in Files :
    p[f].result = "returned" =>
      LET n == IF p[f].errorCount < 10 THEN p[f].errorCount ELSE 10
      IN  /\ p[f].outcome.hasErrors
          /\ Len(p[f].outcome.errors) = n
          /\ \A k \in 1..n :
               /\ p[f].outcome.errors[k] \in 1..Len(p[f].rows)
               /\ p[f].rowRuns[p[f].outcome.errors[k]] = 1
               /\ \A j \in 1..n : j < k => p[f].outcome.errors[j] < p[f].outcome.errors[k]

\* the phase of a load a position belongs to, 0 outside the load's phases
LoadPhase(pc) ==
  CASE pc = "connect" -> 1
    [] pc \in {"tableExists", "createTable"} -> 2
    [] pc = "schemaQuery" -> 3
    [] pc = "begin" -> 4
    [] pc = "delete" -> 5
    [] pc = "insert" -> 6
    [] pc = "commit" -> 7
    [] OTHER -> 0

\* what the statements a load r has sent so far say about their order
LoadInOrder(r) ==
  LET N       == Len(r.rows)
      window  == Truthy(r.minDate) /\ Truthy(r.maxDate)
      inserts == {k \in 1..MaxRows : r.rowRuns[k] > 0}
  IN  /\ r.ran["begin"] <= 1 /\ r.deletes <= 1 /\ r.ran["commit"] <= 1
      /\ r.ran["exists"] >= 1 => r.pool # "none"
      /\ r.ran["create"] >= 1 => r.ran["exists"] = 1
      /\ r.ran["metadata"] >= 1 =>
           r.pool # "none" /\ (r.via = "watcher" => r.ran["exists"] = 1)
      /\ r.ran["begin"] = 1 => r.ran["metadata"] = 1 /\ N >= 1
      /\ r.deletes = 1 => window /\ r.ran["begin"] = 1
      /\ inserts # {} => r.ran["begin"] = 1 /\ (window => r.deletes = 1)
      /\ \A k \in inserts : k < r.i /\ k <= N /\ r.rowRuns[k] = 1
      /\ r.via = "watcher" => inserts = {k \in 1..N : k < r.i}
      /\ r.ran["commit"] = 1 => r.ran["begin"] = 1 /\ r.i = N + 1

(***************************************************************************)
(* C24: a load goes through connect, provision, column metadata with the   *)
(* renaming and the window, begin, delete, insert, commit in this order;   *)
(* the DELETE is sent only with a window and before every INSERT, the      *)
(* records are sent once each in batch order, commit is sent only after    *)
(* the last of them, and a load begins at most one transaction.            *)
(***************************************************************************)
LoadStateOrder ==
  [][\A f \in Files :
       p'[f].pc # "gone" =>
         /\ LoadInOrder(p'[f])
         /\ (LoadPhase(p[f].pc) > 0 /\ LoadPhase(p'[f].pc) > 0) =>
              /\ LoadPhase(p[f].pc) <= LoadPhase(p'[f].pc)
              /\ p[f].pc = "insert" /\ p'[f].pc = "insert" => p'[f].i = p[f].i + 1]_vars

\* a committed load of two records that deleted its window first
TwoRecordsCommittedAfterDelete ==
  \E f \in Files :
    /\ p[f].via = "watcher" /\ p[f].txn = "committed"
    /\ p[f].deletes = 1 /\ p[f].rowRuns = <<1, 1>>

\* the calendar day a date text of the window's records stands for
DayOfText(text) ==
  IF text \in { D1, DN, <<"2","5","-","1","1","-","2","0","2","5">> }
  THEN 20251125 ELSE 20251201

(***************************************************************************)
(* C25: for records of which one at least has a date, the window's minimum *)
(* and maximum are the normalized (YYYY-MM-DD) texts of the earliest and   *)
(* of the latest day among the records' dates, whatever the format of the  *)
(* dates: ISO, DD-MM-YYYY or named month.                                  *)
(***************************************************************************)
WindowBoundsAreTrueExtremes ==
  call.fn = "window" =>
    LET days == {DayOfText(call.picked[k]) :
                   k \in {j \in DOMAIN call.picked : Truthy(call.picked[j])}}
        iso(d) == IF d = 20251125 THEN D1 ELSE D2
    IN  days # {} =>
          /\ call.minDate = iso(CHOOSE d \in days : \A e \in days : d <= e)
          /\ call.maxDate = iso(CHOOSE d \in days : \A e \in days : d >= e)

(***************************************************************************)
(* C26: the stores of a batch are the distinct non-empty values of         *)
(* ORG_CODE_NAME for the detail table and of Gudang for the invoice table, *)
(* and a record's date is its SALES_DATE if that is present and not empty, *)
(* else its Tanggal if that is present and not empty, else it has none.    *)
(***************************************************************************)
WindowStoresAndDateColumn ==
  call.fn = "window" =>
    LET col == IF call.table = SNJ THEN "ORG_CODE_NAME" ELSE "Gudang"
        has(r, c) == c \in DOMAIN r /\ r[c] # <<>>
    IN  /\ call.stores = {call.rows[k][col] :
                            k \in {j \in DOMAIN call.rows : has(call.rows[j], col)}}
        /\ \A k \in DOMAIN call.rows :
             LET r == call.rows[k]
             IN  call.picked[k] = IF has(r, "SALES_DATE") THEN r["SALES_DATE"]
                                  ELSE IF has(r, "Tanggal") THEN r["Tanggal"]
                                  ELSE Undefined

\* invoice records: one with both store columns, one whose SALES_DATE is empty
InvoiceStoresFromGudang ==
  /\ call.fn = "window" /\ call.table = ACC /\ Len(call.rows) = 2
  /\ call.rows[1] = [SALES_DATE |-> D2, ORG_CODE_NAME |-> S1, Gudang |-> S2]
  /\ call.rows[2] = [SALES_DATE |-> <<>>, Tanggal |-> D2, ORG_CODE_NAME |-> <<>>, Gudang |-> S2]
  /\ call.stores = {S2} /\ call.picked[2] = D2

(***************************************************************************)
(* C27: a null, undefined or empty value is bound as a null text           *)
(* parameter whatever the column; any other value is bound as a number     *)
(* when the schema lists the column as numeric, else as a date when the    *)
(* schema lists it as a date column, else as a number when the type name   *)
(* of the column metadata contains int, numeric, decimal or float, else as *)
(* text: what the schema declares wins over the column metadata.           *)
(***************************************************************************)
BindingPrecedence ==
  call.fn = "bind" =>
    LET numeric == call.table = SNJ /\ call.col = "QTY"
        date    == \/ call.table = SNJ /\ call.col = "SALES_DATE"
                   \/ call.table = ACC /\ call.col = "Tanggal"
        live    == call.sqlType \in { <<"i","n","t">>, <<"b","i","g","i","n","t">>,
                                      <<"n","u","m","e","r","i","c">>,
                                      <<"d","e","c","i","m","a","l">>,
                                      <<"f","l","o","a","t">> }
    IN  call.out =
          IF call.value \in {Null, Undefined, <<>>}
          THEN [type |-> "NVarChar", by |-> "null"]
          ELSE IF numeric THEN [type |-> "Numeric", by |-> "parseNumeric"]
          ELSE IF date THEN [type |-> "Date", by |-> "parseDate"]
          ELSE IF live THEN [type |-> "Numeric", by |-> "parseNumeric"]
          ELSE [type |-> "NVarChar", by |-> "toString"]

\* a date column of the schema that the column metadata calls bigint
SchemaDateOverLiveNumber ==
  /\ call.fn = "bind" /\ call.table = SNJ /\ call.col = "SALES_DATE"
  /\ call.value = D1 /\ call.sqlType = <<"b","i","g","i","n","t">>
  /\ call.out.type = "Date"

(***************************************************************************)
(* C28: a file of the watcher without the ZIP signature is read as csv     *)
(* only when every byte of its sample is printable ASCII, CR, LF or TAB;   *)
(* with any other byte, or empty, its type is unknown and parseFile        *)
(* refuses it as an unsupported format.                                    *)
(***************************************************************************)
TextTestInspectsWholeSample ==
  (call.fn = "parser" /\ call.via = "watcher" /\ call.bytes # <<80, 75, 3, 4>>) =>
    LET text == /\ call.bytes # <<>>
                /\ \A k \in DOMAIN call.bytes :
                     call.bytes[k] \in 32..126 \cup {9, 10, 13}
    IN  call.out = IF text THEN "csv" ELSE "throw"

UnknownColumnsAreDropped ==
  \A f \in Files :
    p[f].pc # "gone" =>
      \A k \in 1..MaxRows :
        p[f].rowRuns[k] >= 1 =>
          /\ p[f].sentColumns[k] # {}
          /\ p[f].sentColumns[k] \subseteq p[f].columnTypes

(***************************************************************************)
(* C33: the watcher creates a table before its transaction begins and the  *)
(* table stays when the load is rolled back: it is then there and empty;   *)
(* a transaction belongs to one file, and what it commits changes the one  *)
(* table of that file on its connection and nothing else.                  *)
(***************************************************************************)
OnlyTheLoadIsTransactional ==
  [][\A f \in Files :
       /\ (p'[f].wasCreated /\ ~p[f].wasCreated) =>
            p[f].txn = "none" /\ p[f].ran["begin"] = 0
       /\ (p'[f].pc # "gone" /\ p'[f].wasCreated) =>
            /\ <<p'[f].conn, p'[f].tableName>> \in created'
            /\ p'[f].txn \in {"rolledBack", "rollbackFailed", "abandoned"} =>
                 db'[p'[f].conn][p'[f].tableName] = EmptyBag
       /\ (p'[f].txn = "active" /\ p'[f].pc # "gone") =>
            \A g \in Files \ {f} : p'[g].txn # "active"
       /\ (p[f].pc = "commit" /\ db' # db) =>
            /\ p'[f].txn = "committed"
            /\ \A c \in Conns, t \in Tables :
                 (c # p[f].conn \/ t # p[f].tableName) => db'[c][t] = db[c][t]
     ]_vars

\* a load that created its table and was rolled back
CreatedTableSurvivesRollback ==
  \E f \in Files :
    /\ p[f].wasCreated /\ p[f].txn = "rolledBack"
    /\ <<p[f].conn, p[f].tableName>> \in created

(***************************************************************************)
(* C34: the watcher starts a pipeline for a file of the watched folder     *)
(* exactly when its name does not begin with a dot and its extension is    *)
(* .csv or .xlsx in any letter case; no other file gets a pipeline, so     *)
(* nothing parses, loads or moves it.                                      *)
(***************************************************************************)
WatcherFilter ==
  call.fn = "add" => (call.out <=> (call.case.sheet /\ ~call.case.dot))

\* an upper-case extension starts a pipeline
UpperCaseExtensionStarts ==
  /\ call.fn = "add"
  /\ call.case.name = <<"S","R","P",".","C","S","V">>
  /\ call.out

\* a load of the watcher that had a window, sent its DELETE and committed
CommittedWithWindow(f) ==
  /\ p[f].via = "watcher"
  /\ p[f].txn = "committed"
  /\ hasWindow(p[f].minDate, p[f].maxDate)

\* the rows the DELETE took are gone for good and every record failed: the
\* load succeeds with nothing inserted and an empty window
DeletePersists(f) ==
  /\ p[f].deletes = 1
  /\ TargetNow(f) = (TargetBefore(f) (-) p[f].txDel) (+) p[f].txIns
  /\ p[f].errorCount = Len(p[f].rows) =>
       /\ p[f].result = "returned"
       /\ p[f].successCount = 0
       /\ TargetNow(f) = TargetBefore(f) (-) p[f].txDel
       /\ IsIso(p[f].minDate) /\ IsIso(p[f].maxDate) =>
            \A r \in BagToSet(TargetNow(f)) : ~InWindow(f, r)

(***************************************************************************)
(* C35: a load with a window that committed keeps its delete whatever the  *)
(* number of failed records; when every record failed it still returns     *)
(* success with successCount = 0, the table holds no row of the window,    *)
(* and the file ends in the processed folder.                              *)
(***************************************************************************)
CommittedDeletePersists ==
  \A f \in Files :
    CommittedWithWindow(f) =>
      /\ DeletePersists(f)
      /\ ( p[f].errorCount = Len(p[f].rows) /\ p[f].pc \in {"done", "escaped"} )
           => p[f].loc = "processed"

(***************************************************************************)
(* C36: a file in the failed folder has left no data behind: its load did  *)
(* not commit and every table holds the rows it held before the file was   *)
(* processed; a file whose load committed ends in the processed folder.    *)
(***************************************************************************)
FailedFileLeftNoData ==
  \A f \in Files :
    /\ p[f].loc = "failed" =>
         /\ p[f].txn # "committed"
         /\ p[f].tried # {} => db = p[f].before
    /\ p[f].pc = "done" /\ p[f].txn = "committed" => p[f].loc = "processed"

NeverReturnsWithoutConnection ==
  call.fn = "connectWithRetry" =>
    /\ call.out \in {"pool", "throw"}
    /\ call.out = "pool" => call.attempts >= 1 /\ call.answers[call.attempts]
    /\ call.next = "ensureTable" => call.out = "pool"

(***************************************************************************)
(* C39: when two pipelines of the watcher load into the same table of the  *)
(* same connection, the table is created by at most one of them and        *)
(* neither fails its CREATE TABLE over the table the other has created.    *)
(***************************************************************************)
ConcurrentProvisioningIsSafe ==
  \A f, g \in Files :
    ( /\ f # g
      /\ p[f].tried # {} /\ p[g].tried # {}
      /\ p[f].conn = p[g].conn /\ p[f].tableName = p[g].tableName ) =>
      /\ ~(p[f].wasCreated /\ p[g].wasCreated)
      /\ ~(p[f].failedAt = "alreadyExists" /\ p[g].wasCreated)

(***************************************************************************)
(* C12: a file is sent to one connection only, the one its resolved table  *)
(* is bound to (the invoicing table to Database 2, any other to Database   *)
(* 1); no table of another connection changes; and when that connection is *)
(* not enabled nothing is connected to, nothing is waited for and no table *)
(* changes.                                                                *)
(***************************************************************************)
OneConnectionPerTable ==
  \A f \in Files :
    p[f].pc \notin {"idle", "gone", "wait", "parse", "resolve"} /\ p[f].data # <<>> =>
      LET c == routeOf(detectTableName(p[f].fileName, p[f].data))
      IN  /\ p[f].tried \subseteq {c}
          /\ \A o \in Conns \ {c} : db[o] = p[f].before[o]
          /\ c \notin enabled =>
               /\ p[f].failedAt = "route"
               /\ p[f].tried = {} /\ p[f].attempt = 0 /\ p[f].delays = 0
               /\ db = p[f].before

\* the attempts and waits of connectWithRetry, and what its failure leaves
RetryIsBounded ==
  \A f \in Files :
    p[f].attempt >= 1 =>
      /\ p[f].attempt <= retriesOf(p[f].via)
      /\ p[f].delays = p[f].attempt - 1
      /\ p[f].pool # "none" => p[f].pc # "connect"
      /\ p[f].failedAt = "connect" =>
           /\ p[f].attempt = retriesOf(p[f].via)
           /\ p[f].pool = "none"
           /\ db = p[f].before

(***************************************************************************)
(* C13: connectWithRetry makes at most `retries` attempts, waits once      *)
(* between two attempts and never after the last, makes no attempt after   *)
(* one succeeded, and fails only after `retries` failed attempts; the file *)
(* then ends in the failed folder with no table changed.                   *)
(***************************************************************************)
ConnectionRetryIsBoundedAndFatal ==
  /\ RetryIsBounded
  /\ \A f \in Files :
       ( /\ p[f].via = "watcher"
         /\ p[f].failedAt = "connect"
         /\ p[f].pc \in {"done", "escaped"} ) => p[f].loc = "failed"

(***************************************************************************)
(* C14: once connected, a load sends the existence query, CREATE TABLE,    *)
(* the metadata query, the begin, the DELETE, the commit and the INSERT of *)
(* each record at most once, whether or not the statement failed.          *)
(***************************************************************************)
NoStatementIsSentTwice ==
  \A f \in Files :
    /\ \A op \in Ops : p[f].ran[op] <= 1
    /\ p[f].deletes <= 1
    /\ \A k \in 1..MaxRows : p[f].rowRuns[k] <= 1

\* a load with a failed INSERT and a failed commit, over
FailedStatementsNotSentAgain ==
  \E f \in Files :
    /\ p[f].pc = "done"
    /\ p[f].failedAt = "commit" /\ p[f].ran["commit"] = 1
    /\ p[f].errorCount >= 1 /\ p[f].rowRuns[p[f].errors[1]] = 1

\* the stage of the pipeline a position belongs to
Stage(pc) ==
  CASE pc = "idle" -> 0
    [] pc \in {"wait", "parse"} -> 1
    [] pc = "resolve" -> 2
    [] pc \in {"connect", "tableExists", "createTable"} -> 3
    [] pc \in {"schemaQuery", "begin", "delete", "insert", "commit", "rollback",
               "close"} -> 4
    [] pc \in {"moveProcessed", "moveFailed", "respond"} -> 5
    [] OTHER -> 6

(***************************************************************************)
(* C15: the pipeline of a file goes through parse, resolve, provision,     *)
(* load and relocate in that order, each stage entered from the one before *)
(* it or left for the relocation; the file changes folder in the           *)
(* relocation only, into processed only once the load has committed, into  *)
(* failed only once a step has failed and the connection is closed.        *)
(***************************************************************************)
PipelineStepsInOrder ==
  [][\A f \in Files :
       p'[f].pc # "gone" =>
         /\ Stage(p'[f].pc) >= Stage(p[f].pc)
         /\ Stage(p'[f].pc) \in 1..4 => Stage(p[f].pc) \in {Stage(p'[f].pc) - 1, Stage(p'[f].pc)}
         /\ p'[f].loc # p[f].loc => Stage(p[f].pc) \in {0, 5}
         /\ p'[f].loc = "processed" => p'[f].txn = "committed"
         /\ (Stage(p'[f].pc) = 5 /\ Stage(p[f].pc) < 5) =>
              /\ p'[f].pool # "open"
              /\ p'[f].txn # "active"
              /\ p'[f].txn = "committed" \/ p'[f].failedAt # "none"]_vars

\* a file in the processed folder after a provisioned, committed load
MovedAfterCommittedLoad ==
  \E f \in Files :
    /\ p[f].pc = "done" /\ p[f].loc = "processed"
    /\ p[f].ran["create"] = 1 /\ p[f].txn = "committed"

(***************************************************************************)
(* C29: the watcher neither detects the type of a file nor parses it       *)
(* before an exclusive open of the file has succeeded; the open is tried   *)
(* again at a fixed interval, and when none has succeeded within the       *)
(* maximum wait the file is never parsed and goes to the failed folder.    *)
(***************************************************************************)
WriteStabilityGate ==
  \A f \in Files :
    (p[f].via = "watcher" /\ p[f].pc \notin {"idle", "gone"}) =>
      /\ p[f].pc = "wait" =>
           p[f].gate = "none" /\ p[f].waited % 500 = 0 /\ p[f].waited <= 10000
      /\ (p[f].pc = "parse" \/ p[f].data # <<>> \/ Stage(p[f].pc) \in 2..4) =>
           p[f].gate = "passed"
      /\ p[f].gate = "timedOut" =>
           /\ p[f].waited = 10000 /\ p[f].data = <<>> /\ p[f].failedAt = "parse"
           /\ p[f].pool = "none" /\ p[f].loc # "processed"
           /\ p[f].pc \in {"done", "escaped"} => p[f].loc = "failed"

(***************************************************************************)
(* C16: files detected together do not affect one another: a pipeline      *)
(* fails only by a failure of one of its own steps, so the table a         *)
(* pipeline found missing is still missing when it creates it, and no      *)
(* CREATE TABLE fails over a table another pipeline has just created.      *)
(***************************************************************************)
ConcurrentFilesAreIndependent ==
  \A f \in Files :
    /\ p[f].pc = "createTable" => <<p[f].conn, p[f].tableName>> \notin created
    /\ p[f].failedAt # "alreadyExists"

(***************************************************************************)
(* C17: a file that begins with the bytes 50 4B 03 04 is given to the      *)
(* spreadsheet parser, whatever its name, by every variant.                *)
(***************************************************************************)
ZipSignatureMeansSpreadsheet ==
  call.fn = "parser" /\ call.bytes = <<80, 75, 3, 4>> => call.out = "xlsx"

(***************************************************************************)
(* C18: a file of the watcher with no record fails at the parse: nothing   *)
(* is connected to, no statement is sent, and the file ends in the failed  *)
(* folder, never in processed.                                             *)
(***************************************************************************)
ZeroRecordsIsParseFailure ==
  \A f \in Files :
    ( /\ p[f].via = "watcher" /\ p[f].content = <<>>
      /\ Stage(p[f].pc) >= 2 /\ p[f].pc # "gone" ) =>
      /\ p[f].failedAt = "parse"
      /\ p[f].attempt = 0 /\ p[f].tried = {} /\ p[f].pool = "none"
      /\ \A op \in Ops : p[f].ran[op] = 0
      /\ p[f].deletes = 0 /\ p[f].txn = "none"
      /\ p[f].loc # "processed"
      /\ p[f].pc \in {"done", "escaped"} => p[f].loc = "failed"

DmyDateBecomesIso ==
  call.fn = "coerceDate" /\ IsDMY(call.value) =>
    call.out = SubSeq(call.value, 7, 10) \o <<"-">> \o SubSeq(call.value, 4, 5)
               \o <<"-">> \o SubSeq(call.value, 1, 2)

====
